---- MODULE Spec2Model ----
(***************************************************************************)
(* skip-duplicate-actions (src/src/main.ts): the decision engine of one    *)
(* invocation (main, SkipDuplicateActions.run and its helpers), run by     *)
(* every workflow run against a shared remote store of workflow runs,      *)
(* commits and ledger artifacts.                                           *)
(***************************************************************************)
EXTENDS Integers, Sequences, FiniteSets, TLC

VARIABLES
  inputs,      \* the parsed action inputs (InputsType), the same for every run
  mayFail,     \* whether remote calls can fail (throw) in this behaviour
  apiRuns,     \* the platform's workflow runs, by run id
  commits,     \* the platform's commits, by sha
  artifacts,   \* the ledger artifacts of the workflow, newest first
  nextArtifactId, \* the id the platform gives the next uploaded artifact
  pc,          \* each invocation's position
  context,     \* each invocation's Context (currentRun, allRuns, olderRuns, ...)
  cancelReqs,  \* the run ids each invocation sent a cancel request for
  bt,          \* the locals of backtracePathSkipping of each invocation
  result,      \* the ResultInput each invocation handed to exitSuccess
  outputs      \* the outputs each invocation set (core.setOutput)

vars == <<inputs, mayFail, apiRuns, commits, artifacts, nextArtifactId, pc, context,
          cancelReqs, bt, result, outputs>>

(***************************************************************************)
(* Bounds of the model.                                                    *)
(***************************************************************************)
NumRuns == 3       \* the workflow runs of the store
NumListed == 2     \* the runs that exist when a single invocation is studied
MaxLimit == 2      \* the largest integer backtracking limit of a filter
MaxArtifacts == 3  \* ledger blobs after which a run is not invoked again
MaxCreatedAt == 2  \* the creation times
NumBlobs == 6      \* the ledger blobs that exist when retention is studied

RunIds == 1..NumRuns
Listed == 1..NumListed

\* The outcomes of a remote call: it returns, or (when calls can fail) throws.
Outcomes == IF mayFail THEN BOOLEAN ELSE {TRUE}

(***************************************************************************)
(* Values.                                                                 *)
(***************************************************************************)
\* `undefined` for a run id (a Map key or a skipped_by that is not there).
NoRunId == 0
\* `undefined` / falsy for a tree hash or a sha.
NoHash == ""
Trees == {"T1", "T2", "T3"}
Shas == {"c1", "c2", "c3"}
WorkflowRunTriggerType ==
  {"pull_request", "push", "workflow_dispatch", "schedule", "release"}
ConcurrentSkippingType ==
  {"always", "same_content", "same_content_newer", "outdated_runs", "never"}
\* should_skip of a filter: z.boolean().nullable()
Null == "null"
True == "true"
False == "false"

\* `undefined` for a WorkflowRun.
NoRun ==
  [id |-> NoRunId, runNumber |-> 0, event |-> "", treeHash |-> NoHash,
   commitHash |-> NoHash, status |-> "", conclusion |-> "", branch |-> "",
   repo |-> "", createdAt |-> 0]

\* A paths_result / changed_files that is not there.
NoPathsResult == [n \in {} |-> Null]
NoResult ==
  [should_skip |-> FALSE, reason |-> "", skipped_by |-> NoRun,
   paths_result |-> NoPathsResult, changed_files |-> <<>>]
\* The `r` of a ledger entry that has none (ArtifactResult, skipped_by an id).
NoArtifactResult ==
  [should_skip |-> FALSE, reason |-> "", skipped_by |-> NoRunId,
   paths_result |-> NoPathsResult, changed_files |-> <<>>]
NoContext ==
  [currentRun |-> NoRun, allRuns |-> <<>>, olderRuns |-> <<>>,
   artifactRuns |-> [k \in {} |-> 0], artifactIds |-> <<>>]
NoBacktrace ==
  [iterSha |-> NoHash, distanceToHEAD |-> 0, pathsResult |-> NoPathsResult,
   allChangedFiles |-> <<>>]

(***************************************************************************)
(* Sequence helpers (Array.prototype.find / filter / map).                 *)
(***************************************************************************)
\* runs.find(test) is First(SelectSeq(runs, test)).
First(seq) == IF seq = <<>> THEN NoRun ELSE seq[1]

Ids(seq) == {seq[k].id : k \in 1..Len(seq)}

(***************************************************************************)
(* mapWorkflowRun: pick selected data from an API workflow run.            *)
(***************************************************************************)
mapWorkflowRun(run, treeHash) ==
  [id |-> run.id, runNumber |-> run.run_number, event |-> run.event,
   treeHash |-> treeHash, commitHash |-> run.head_sha, status |-> run.status,
   conclusion |-> run.conclusion, branch |-> run.head_branch,
   repo |-> run.repo, createdAt |-> run.created_at]

(***************************************************************************)
(* The platform's run listing: the runs that exist, newest first.          *)
(***************************************************************************)
RECURSIVE ListDesc(_)
ListDesc(n) ==
  IF n = 0 THEN <<>>
  ELSE (IF apiRuns[n].status # "none" THEN <<apiRuns[n]>> ELSE <<>>)
       \o ListDesc(n - 1)

listWorkflowRuns == ListDesc(NumRuns)

\* The latest ledger blob's runs (artifactData), {} when there is none.
LatestArtifactData ==
  IF artifacts = <<>> THEN [k \in {} |-> 0] ELSE artifacts[1].data

(***************************************************************************)
(* main: the inputs are parsed against InputsType.                         *)
(***************************************************************************)
\* An element of a list input that is not a string.
NotAString == "<not a string>"

\* z.array(z.string())
StringArray(l) == NotAString \notin l

\* PathsFilterType: every entry has string lists and a boolean or number.
PathsFilterTypeParses(f) ==
  \A name \in DOMAIN f :
    /\ StringArray(f[name].paths_ignore)
    /\ StringArray(f[name].paths)
    /\ f[name].backtracking.kind \in {"boolean", "number"}

\* A variant that takes any string for concurrent_skipping.
InputsTypeParsesAnyPolicy(inp) ==
  /\ StringArray(inp.paths)
  /\ StringArray(inp.paths_ignore)
  /\ PathsFilterTypeParses(inp.paths_filter)
  /\ inp.do_not_skip \subseteq WorkflowRunTriggerType

\* InputsType.parse(...) does not throw.
InputsTypeParses(inp) ==
  /\ StringArray(inp.paths)
  /\ StringArray(inp.paths_ignore)
  /\ PathsFilterTypeParses(inp.paths_filter)
  /\ inp.do_not_skip \subseteq WorkflowRunTriggerType
  /\ inp.concurrent_skipping \in ConcurrentSkippingType

(***************************************************************************)
(* main, up to the call of run(): the current run, the listing and the     *)
(* ledger are read and mapped into the Context.                            *)
(***************************************************************************)
\* A variant that keeps the runs without head_commit.
AllRunsOfAnyTree(cur) ==
  LET api == SelectSeq(listWorkflowRuns, LAMBDA r : r.id # cur.id)
  IN [k \in 1..Len(api) |-> mapWorkflowRun(api[k], api[k].tree_id)]

AllRunsOf(cur) ==
  LET api == SelectSeq(listWorkflowRuns,
                       LAMBDA r : r.id # cur.id /\ r.tree_id # NoHash)
  IN [k \in 1..Len(api) |-> mapWorkflowRun(api[k], api[k].tree_id)]

\* A variant that also takes the runs created at the same time as older.
OlderRunsOfOrEqual(cur, allRuns) ==
  SelectSeq(allRuns, LAMBDA r : r.createdAt <= cur.createdAt)

OlderRunsOf(cur, allRuns) ==
  SelectSeq(allRuns, LAMBDA r : r.createdAt < cur.createdAt)

\* currentArtifactRun: {} or, on pull_request, {t: tree of the merge commit}.
CurrentArtifactRun(api) ==
  [t |-> IF api.event = "pull_request" THEN commits[api.context_sha].tree
         ELSE NoHash,
   r |-> NoArtifactResult]

\* A variant that keeps every entry of the blob it read.
ArtifactRunsOfEveryEntry(api, allRuns, artifactData) ==
  [k \in {api.id} \cup DOMAIN artifactData |->
     IF k = api.id THEN CurrentArtifactRun(api) ELSE artifactData[k]]

ArtifactRunsOf(api, allRuns, artifactData) ==
  [k \in {api.id} \cup (Ids(allRuns) \cap DOMAIN artifactData) |->
     IF k = api.id THEN CurrentArtifactRun(api) ELSE artifactData[k]]

ArtifactIdsOf(arts) == [k \in 1..Len(arts) |-> arts[k].id]

Main(i) ==
  /\ pc[i] = "idle"
  /\ apiRuns[i].status = "in_progress"
  /\ \E runOk \in Outcomes, commitOk \in Outcomes, runsOk \in Outcomes,
        listOk \in Outcomes, readOk \in Outcomes :
       \* runOk, commitOk, runsOk: getWorkflowRun, getCommit (on
       \* pull_request) and listWorkflowRuns returned; they are awaited
       \* outside any try, so a failure rejects the promise of main(), which
       \* nothing handles.
       \* listOk: listArtifactsForRepo returned; readOk: the download and
       \* the parse of the latest artifact went through
       IF ~InputsTypeParses(inputs)
       THEN \* exitFail: error with input values, before any request
            /\ pc' = [pc EXCEPT ![i] = "failed"]
            /\ UNCHANGED context
       ELSE IF ~runOk
       THEN /\ pc' = [pc EXCEPT ![i] = "crashed"]
            /\ UNCHANGED context
       ELSE IF apiRuns[i].tree_id = NoHash
       THEN \* exitFail: could not find the tree hash of the current run
            /\ pc' = [pc EXCEPT ![i] = "failed"]
            /\ UNCHANGED context
       ELSE IF apiRuns[i].event = "pull_request" /\ ~commitOk
       THEN /\ pc' = [pc EXCEPT ![i] = "crashed_commit"]
            /\ UNCHANGED context
       ELSE IF ~runsOk
       THEN /\ pc' = [pc EXCEPT ![i] = "crashed_list"]
            /\ UNCHANGED context
       ELSE LET cur == mapWorkflowRun(apiRuns[i], apiRuns[i].tree_id)
                allRuns == AllRunsOf(cur)
                artifactData == IF listOk /\ readOk THEN LatestArtifactData
                                ELSE [k \in {} |-> 0]
            IN /\ context' = [context EXCEPT ![i] =
                    [currentRun |-> cur,
                     allRuns |-> allRuns,
                     olderRuns |-> OlderRunsOf(cur, allRuns),
                     artifactRuns |->
                       ArtifactRunsOf(apiRuns[i], allRuns, artifactData),
                     artifactIds |-> IF listOk THEN ArtifactIdsOf(artifacts)
                                     ELSE <<>>]]
               /\ pc' = [pc EXCEPT ![i] =
                    IF inputs.cancel_others THEN "cancel" ELSE "run"]
  /\ UNCHANGED <<inputs, mayFail, apiRuns, commits, artifacts, nextArtifactId,
                 cancelReqs, bt, result, outputs>>

(***************************************************************************)
(* cancelOutdatedRuns.                                                     *)
(***************************************************************************)
\* A variant that does not look at the branch.
cancelVictimsOfAnyBranch(c) ==
  SelectSeq(c.olderRuns,
            LAMBDA run : /\ run.status # "completed"
                         /\ run.treeHash # c.currentRun.treeHash
                         /\ run.repo = c.currentRun.repo)

\* A variant that gives up after the first victim.
cancelFirstVictim(c) ==
  LET victims == SelectSeq(c.olderRuns,
                   LAMBDA run :
                     /\ run.status # "completed"
                     /\ run.treeHash # c.currentRun.treeHash
                     /\ run.branch = c.currentRun.branch
                     /\ run.repo = c.currentRun.repo)
  IN IF victims = <<>> THEN <<>> ELSE <<victims[1]>>

cancelVictims(c) ==
  SelectSeq(c.olderRuns,
            LAMBDA run :
              IF run.status = "completed" THEN FALSE
              ELSE /\ run.treeHash # c.currentRun.treeHash
                   /\ run.branch = c.currentRun.branch
                   /\ run.repo = c.currentRun.repo)

\* The platform's cancelWorkflowRun: a run that is not completed ends cancelled.
Cancelled(run) ==
  IF run.status \in {"queued", "in_progress"}
  THEN [run EXCEPT !.status = "completed", !.conclusion = "cancelled"]
  ELSE run

CancelOutdatedRuns(i) ==
  /\ pc[i] = "cancel"
  /\ LET victims == cancelVictims(context[i])
     IN \E ok \in (IF mayFail THEN SUBSET Ids(victims) ELSE {Ids(victims)}) :
          \* ok: the requests that did not throw; the loop sends one request
          \* for each victim, in the order of the list
          /\ apiRuns' = [r \in RunIds |->
                           IF r \in ok THEN Cancelled(apiRuns[r])
                           ELSE apiRuns[r]]
          /\ cancelReqs' = [cancelReqs EXCEPT ![i] =
                              [k \in 1..Len(victims) |-> victims[k].id]]
  /\ pc' = [pc EXCEPT ![i] = "run"]
  /\ UNCHANGED <<inputs, mayFail, commits, artifacts, nextArtifactId, context, bt,
                 result, outputs>>

(***************************************************************************)
(* findSuccessfulDuplicateRun and detectConcurrentRuns.                    *)
(***************************************************************************)
\* this.context.artifactRuns.get(run)?.t
ArtifactT(c, run) ==
  IF run.id \in DOMAIN c.artifactRuns THEN c.artifactRuns[run.id].t
  ELSE NoHash

\* A variant that does not look at the conclusion of the run.
findAnyDuplicateRun(c, treeHash) ==
  IF treeHash = NoHash THEN NoRun
  ELSE First(SelectSeq(c.olderRuns,
            LAMBDA run :
              LET runTreeHash == IF run.event = "pull_request"
                                 THEN ArtifactT(c, run)
                                 ELSE run.treeHash
              IN runTreeHash = treeHash /\ run.status = "completed"))

\* A variant that compares the reported tree hash of every run.
findReportedDuplicateRun(c, treeHash) ==
  IF treeHash = NoHash THEN NoRun
  ELSE First(SelectSeq(c.olderRuns,
            LAMBDA run : /\ run.treeHash = treeHash
                         /\ run.status = "completed"
                         /\ run.conclusion = "success"))

\* A variant that falls back to the reported tree hash of a pull_request run
\* that has no ledger entry.
findSuccessfulDuplicateRunOrReported(c, treeHash) ==
  IF treeHash = NoHash THEN NoRun
  ELSE First(SelectSeq(c.olderRuns,
            LAMBDA run :
              LET runTreeHash == IF /\ run.event = "pull_request"
                                    /\ run.id \in DOMAIN c.artifactRuns
                                 THEN ArtifactT(c, run)
                                 ELSE run.treeHash
              IN /\ runTreeHash = treeHash
                 /\ run.status = "completed"
                 /\ run.conclusion = "success"))

findSuccessfulDuplicateRun(c, treeHash) ==
  IF treeHash = NoHash THEN NoRun
  ELSE First(SelectSeq(c.olderRuns,
            LAMBDA run :
              LET runTreeHash == IF run.event = "pull_request"
                                 THEN ArtifactT(c, run)
                                 ELSE run.treeHash
              IN /\ runTreeHash = treeHash
                 /\ run.status = "completed"
                 /\ run.conclusion = "success"))

\* A variant that only looks at the older runs.
detectOlderConcurrentRuns(inp, c) ==
  LET concurrentRuns == SelectSeq(c.olderRuns,
                                  LAMBDA run : run.status # "completed")
  IN IF concurrentRuns = <<>> \/ inp.concurrent_skipping = "never" THEN NoRun
     ELSE concurrentRuns[1]

\* A variant whose same_content_newer does not compare the run numbers.
detectConcurrentRunsAnyNumber(inp, c) ==
  LET concurrentRuns == SelectSeq(c.allRuns,
                                  LAMBDA run : run.status # "completed")
  IN IF concurrentRuns = <<>> THEN NoRun
     ELSE IF inp.concurrent_skipping = "always" THEN concurrentRuns[1]
     ELSE IF inp.concurrent_skipping = "outdated_runs"
       THEN First(SelectSeq(concurrentRuns,
                 LAMBDA run : run.createdAt > c.currentRun.createdAt))
     ELSE IF inp.concurrent_skipping \in {"same_content", "same_content_newer"}
       THEN First(SelectSeq(concurrentRuns,
                 LAMBDA run : run.treeHash = c.currentRun.treeHash))
     ELSE NoRun

\* A variant whose outdated_runs looks for an older concurrent run.
detectConcurrentRunsOutdatedOlder(inp, c) ==
  LET concurrentRuns == SelectSeq(c.allRuns,
                                  LAMBDA run : run.status # "completed")
  IN IF concurrentRuns = <<>> THEN NoRun
     ELSE IF inp.concurrent_skipping = "always" THEN concurrentRuns[1]
     ELSE IF inp.concurrent_skipping = "outdated_runs"
       THEN First(SelectSeq(concurrentRuns,
                 LAMBDA run : run.createdAt < c.currentRun.createdAt))
     ELSE IF inp.concurrent_skipping = "same_content"
       THEN First(SelectSeq(concurrentRuns,
                 LAMBDA run : run.treeHash = c.currentRun.treeHash))
     ELSE IF inp.concurrent_skipping = "same_content_newer"
       THEN First(SelectSeq(concurrentRuns,
                 LAMBDA run : /\ run.treeHash = c.currentRun.treeHash
                              /\ run.runNumber < c.currentRun.runNumber))
     ELSE NoRun

detectConcurrentRuns(inp, c) ==
  LET concurrentRuns == SelectSeq(c.allRuns,
                                  LAMBDA run : run.status # "completed")
  IN IF concurrentRuns = <<>> THEN NoRun
     ELSE IF inp.concurrent_skipping = "always" THEN concurrentRuns[1]
     ELSE IF inp.concurrent_skipping = "outdated_runs"
       THEN First(SelectSeq(concurrentRuns,
                 LAMBDA run : run.createdAt > c.currentRun.createdAt))
     ELSE IF inp.concurrent_skipping = "same_content"
       THEN First(SelectSeq(concurrentRuns,
                 LAMBDA run : run.treeHash = c.currentRun.treeHash))
     ELSE IF inp.concurrent_skipping = "same_content_newer"
       THEN First(SelectSeq(concurrentRuns,
                 LAMBDA run : /\ run.treeHash = c.currentRun.treeHash
                              /\ run.runNumber < c.currentRun.runNumber))
     ELSE NoRun

(***************************************************************************)
(* Path filters: micromatch over a small universe of files and patterns.   *)
(***************************************************************************)
Files == {"src/a.ts", "docs/a.md", "src/docs/a.md"}
Patterns == {"src/**", "docs/**", "src/docs/**"}

\* micromatch.isMatch(file, pattern, {dot: true})
IsMatch(file, pattern) ==
  \/ pattern = "src/**" /\ file \in {"src/a.ts", "src/docs/a.md"}
  \/ pattern = "docs/**" /\ file = "docs/a.md"
  \/ pattern = "src/docs/**" /\ file = "src/docs/a.md"

\* micromatch(list, patterns): the files matching at least one pattern.
micromatch(list, patterns) ==
  {f \in list : \E p \in patterns : IsMatch(f, p)}

\* micromatch.not(list, patterns): the files matching none of the patterns.
micromatchNot(list, patterns) ==
  {f \in list : \A p \in patterns : ~IsMatch(f, p)}

\* A variant that takes no commit for ignored.
isCommitPathsNeverIgnored(changedFiles, pathsIgnore) == FALSE

\* A variant that takes a commit for ignored when one changed file matches.
isCommitPathsPartlyIgnored(changedFiles, pathsIgnore) ==
  IF pathsIgnore = {} THEN FALSE
  ELSE micromatch(changedFiles, pathsIgnore) # {}

isCommitPathsIgnored(changedFiles, pathsIgnore) ==
  IF pathsIgnore = {} THEN FALSE
  ELSE micromatchNot(changedFiles, pathsIgnore) = {}

\* A variant for which every changed file matches.
getCommitPathsAll(changedFiles, paths) == changedFiles

getCommitPathsMatches(changedFiles, paths) == micromatch(changedFiles, paths)

\* backtracking: z.union([z.boolean(), z.number()])
Unlimited == [kind |-> "boolean", b |-> TRUE, n |-> 0]
Disabled == [kind |-> "boolean", b |-> FALSE, n |-> 0]
Limit(n) == [kind |-> "number", b |-> FALSE, n |-> n]

\* A variant that never reaches a limit.
LimitNeverReached(backtracking, distanceToHEAD) == FALSE

\* A variant that reaches the limit of backtracking: false one commit late.
LimitReachedDisabledLate(backtracking, distanceToHEAD) ==
  \/ backtracking.kind = "boolean" /\ ~backtracking.b /\ distanceToHEAD = 2
  \/ backtracking.kind = "number" /\ backtracking.n = distanceToHEAD

\* A variant that reaches an integer limit one commit late.
LimitReachedLate(backtracking, distanceToHEAD) ==
  \/ backtracking.kind = "boolean" /\ ~backtracking.b /\ distanceToHEAD = 1
  \/ backtracking.kind = "number" /\ backtracking.n + 1 = distanceToHEAD

\* (backtracking === false && distanceToHEAD === 1) || backtracking === distanceToHEAD
LimitReached(backtracking, distanceToHEAD) ==
  \/ backtracking.kind = "boolean" /\ ~backtracking.b /\ distanceToHEAD = 1
  \/ backtracking.kind = "number" /\ backtracking.n = distanceToHEAD

\* pathsFilter: the named filters plus the global one.
PathsFilterOf(inp) ==
  [name \in DOMAIN inp.paths_filter \cup {"global"} |->
     IF name = "global"
     THEN [paths |-> inp.paths, paths_ignore |-> inp.paths_ignore,
           backtracking |-> Unlimited]
     ELSE inp.paths_filter[name]]

\* PathsResult.addFilter
NewFilterResult ==
  [should_skip |-> Null, backtrack_count |-> 0, skipped_by |-> NoRun,
   matched_files |-> {}]

(***************************************************************************)
(* run(), up to the path checks: the first conclusive verdict, or NoResult *)
(* when the path checks (or the default) decide.                           *)
(***************************************************************************)
Verdict(should_skip, reason, skipped_by) ==
  [should_skip |-> should_skip, reason |-> reason, skipped_by |-> skipped_by,
   paths_result |-> NoPathsResult, changed_files |-> <<>>]

\* A variant without the do_not_skip check.
NeverDoNotSkip(inp, c) == FALSE

\* A variant of the duplicate check that, as src/src/index.ts did, stops at a
\* failed duplicate too.
LegacyDuplicate(inp, c) ==
  IF inp.skip_after_successful_duplicates
  THEN findAnyDuplicateRun(c, IF c.currentRun.event = "pull_request"
                              THEN ArtifactT(c, c.currentRun)
                              ELSE c.currentRun.treeHash)
  ELSE NoRun

\* this.inputs.do_not_skip.includes(this.context.currentRun.event)
DoNotSkip(inp, c) == c.currentRun.event \in inp.do_not_skip

\* The tree hash run() looks a successful duplicate up for.
CurrentTreeHash(c) ==
  IF c.currentRun.event = "pull_request" THEN ArtifactT(c, c.currentRun)
  ELSE c.currentRun.treeHash

SuccessfulDuplicate(inp, c) ==
  IF inp.skip_after_successful_duplicates
  THEN findSuccessfulDuplicateRun(c, CurrentTreeHash(c))
  ELSE NoRun

ConcurrentRun(inp, c) ==
  IF inp.concurrent_skipping # "never" THEN detectConcurrentRuns(inp, c)
  ELSE NoRun

PathsConfigured(inp) ==
  inp.paths # {} \/ inp.paths_ignore # {} \/ DOMAIN inp.paths_filter # {}

\* A variant that asks the concurrency check before the duplicate check.
DecideRunConcurrencyFirst(inp, c) ==
  IF DoNotSkip(inp, c) THEN Verdict(FALSE, "do_not_skip", NoRun)
  ELSE IF ConcurrentRun(inp, c) # NoRun
    THEN Verdict(TRUE, "concurrent_skipping", ConcurrentRun(inp, c))
  ELSE IF SuccessfulDuplicate(inp, c) # NoRun
    THEN Verdict(TRUE, "skip_after_successful_duplicate",
                 SuccessfulDuplicate(inp, c))
  ELSE IF PathsConfigured(inp) THEN NoResult
  ELSE Verdict(FALSE, "no_transferable_run", NoRun)

\* A variant that starts the path checks before the do_not_skip check.
DecideRunPathsFirst(inp, c) ==
  IF PathsConfigured(inp) /\ DoNotSkip(inp, c) THEN NoResult
  ELSE IF DoNotSkip(inp, c) THEN Verdict(FALSE, "do_not_skip", NoRun)
  ELSE IF SuccessfulDuplicate(inp, c) # NoRun
    THEN Verdict(TRUE, "skip_after_successful_duplicate",
                 SuccessfulDuplicate(inp, c))
  ELSE IF ConcurrentRun(inp, c) # NoRun
    THEN Verdict(TRUE, "concurrent_skipping", ConcurrentRun(inp, c))
  ELSE IF PathsConfigured(inp) THEN NoResult
  ELSE Verdict(FALSE, "no_transferable_run", NoRun)

DecideRun(inp, c) ==
  IF DoNotSkip(inp, c) THEN Verdict(FALSE, "do_not_skip", NoRun)
  ELSE IF SuccessfulDuplicate(inp, c) # NoRun
    THEN Verdict(TRUE, "skip_after_successful_duplicate",
                 SuccessfulDuplicate(inp, c))
  ELSE IF ConcurrentRun(inp, c) # NoRun
    THEN Verdict(TRUE, "concurrent_skipping", ConcurrentRun(inp, c))
  ELSE IF PathsConfigured(inp) THEN NoResult
  ELSE Verdict(FALSE, "no_transferable_run", NoRun)

Run(i) ==
  /\ pc[i] = "run"
  /\ LET v == DecideRun(inputs, context[i])
     IN IF v # NoResult
        THEN /\ result' = [result EXCEPT ![i] = v]
             /\ pc' = [pc EXCEPT ![i] = "exit"]
             /\ UNCHANGED bt
        ELSE \* backtracePathSkipping starts: every filter is added as unknown
             /\ bt' = [bt EXCEPT ![i] =
                  [iterSha |-> context[i].currentRun.commitHash,
                   distanceToHEAD |-> 0,
                   pathsResult |-> [n \in DOMAIN PathsFilterOf(inputs) |->
                                      NewFilterResult],
                   allChangedFiles |-> <<>>]]
             /\ pc' = [pc EXCEPT ![i] = "paths"]
             /\ UNCHANGED result
  /\ UNCHANGED <<inputs, mayFail, apiRuns, commits, artifacts, nextArtifactId, context,
                 cancelReqs, outputs>>

(***************************************************************************)
(* backtracePathSkipping: one iteration of the do-while loop per step.     *)
(***************************************************************************)
MaxBacktrace == 50

\* `undefined` for a commit.
NoCommit == [tree |-> NoHash, hasFiles |-> FALSE, files |-> {}, parent |-> NoHash]

\* commit.files ? commit.files.map(file => file.filename) : []
ChangedFilesOf(commit) == IF commit.hasFiles THEN commit.files ELSE {}

\* A variant that matches the allow-list against the files that are not
\* deny-listed.
FilterStepOnRelevant(f, res, changedFiles, successfulRun, distanceToHEAD) ==
  LET relevant == IF f.paths_ignore = {} THEN changedFiles
                  ELSE micromatchNot(changedFiles, f.paths_ignore)
  IN IF successfulRun # NoRun
     THEN [res EXCEPT !.should_skip = True, !.skipped_by = successfulRun,
                      !.backtrack_count = distanceToHEAD]
     ELSE IF LimitReached(f.backtracking, distanceToHEAD)
     THEN [res EXCEPT !.should_skip = False,
                      !.backtrack_count = distanceToHEAD]
     ELSE IF isCommitPathsIgnored(changedFiles, f.paths_ignore) THEN res
     ELSE IF f.paths # {} /\ getCommitPathsMatches(relevant, f.paths) = {}
     THEN res
     ELSE [res EXCEPT !.should_skip = False,
                      !.backtrack_count = distanceToHEAD,
                      !.matched_files =
                        IF f.paths # {}
                        THEN getCommitPathsMatches(relevant, f.paths)
                        ELSE @]

\* The body of the loop over the unknown filters, for one filter.
FilterStep(f, res, changedFiles, successfulRun, distanceToHEAD) ==
  IF successfulRun # NoRun
  THEN [res EXCEPT !.should_skip = True, !.skipped_by = successfulRun,
                   !.backtrack_count = distanceToHEAD]
  ELSE IF LimitReached(f.backtracking, distanceToHEAD)
  THEN [res EXCEPT !.should_skip = False, !.backtrack_count = distanceToHEAD]
  ELSE IF isCommitPathsIgnored(changedFiles, f.paths_ignore) THEN res
  ELSE IF f.paths # {} /\ getCommitPathsMatches(changedFiles, f.paths) = {}
  THEN res
  ELSE [res EXCEPT !.should_skip = False,
                   !.backtrack_count = distanceToHEAD,
                   !.matched_files =
                     IF f.paths # {}
                     THEN getCommitPathsMatches(changedFiles, f.paths)
                     ELSE @]

hasUnknownFilters(pathsResult) ==
  \E n \in DOMAIN pathsResult : pathsResult[n].should_skip = Null

\* A variant that skips unless the global filter resolved to don't-skip.
PathsVerdictUnlessFalse(b) ==
  [should_skip |-> b.pathsResult["global"].should_skip # False,
   reason |-> "paths",
   skipped_by |-> b.pathsResult["global"].skipped_by,
   paths_result |-> b.pathsResult,
   changed_files |-> b.allChangedFiles]

\* A variant that skips as soon as one filter resolved to skip.
PathsVerdictAnyFilter(b) ==
  [should_skip |-> \E n \in DOMAIN b.pathsResult :
                     b.pathsResult[n].should_skip = True,
   reason |-> "paths",
   skipped_by |-> b.pathsResult["global"].skipped_by,
   paths_result |-> b.pathsResult,
   changed_files |-> b.allChangedFiles]

\* The result run() builds from the global filter after the loop.
PathsVerdict(b) ==
  LET globalPathsResult == b.pathsResult["global"]
  IN [should_skip |-> globalPathsResult.should_skip = True,
      reason |-> "paths",
      skipped_by |-> globalPathsResult.skipped_by,
      paths_result |-> b.pathsResult,
      changed_files |-> b.allChangedFiles]

\* A variant that does not record a commit without changed files.
LoopBodySkippingEmpty(inp, c, b, commit) ==
  LET changedFiles == ChangedFilesOf(commit)
      successfulRun == IF b.distanceToHEAD > 0
                       THEN findSuccessfulDuplicateRun(c, commit.tree)
                       ELSE NoRun
      pathsFilter == PathsFilterOf(inp)
  IN [iterSha |-> commit.parent,
      distanceToHEAD |-> b.distanceToHEAD + 1,
      pathsResult |->
        [n \in DOMAIN b.pathsResult |->
           IF b.pathsResult[n].should_skip = Null
           THEN FilterStep(pathsFilter[n], b.pathsResult[n], changedFiles,
                           successfulRun, b.distanceToHEAD)
           ELSE b.pathsResult[n]],
      allChangedFiles |-> IF changedFiles = {} THEN b.allChangedFiles
                          ELSE Append(b.allChangedFiles, changedFiles)]

\* A variant that looks for a successful run at the starting commit too.
LoopBodyMatchingHead(inp, c, b, commit) ==
  LET changedFiles == ChangedFilesOf(commit)
      successfulRun == findSuccessfulDuplicateRun(c, commit.tree)
      pathsFilter == PathsFilterOf(inp)
  IN [iterSha |-> commit.parent,
      distanceToHEAD |-> b.distanceToHEAD + 1,
      pathsResult |->
        [n \in DOMAIN b.pathsResult |->
           IF b.pathsResult[n].should_skip = Null
           THEN FilterStep(pathsFilter[n], b.pathsResult[n], changedFiles,
                           successfulRun, b.distanceToHEAD)
           ELSE b.pathsResult[n]],
      allChangedFiles |-> Append(b.allChangedFiles, changedFiles)]

\* A variant that runs the body for the resolved filters too.
LoopBodyRevisiting(inp, c, b, commit) ==
  LET changedFiles == ChangedFilesOf(commit)
      successfulRun == IF b.distanceToHEAD > 0
                       THEN findSuccessfulDuplicateRun(c, commit.tree)
                       ELSE NoRun
      pathsFilter == PathsFilterOf(inp)
  IN [iterSha |-> commit.parent,
      distanceToHEAD |-> b.distanceToHEAD + 1,
      pathsResult |->
        [n \in DOMAIN b.pathsResult |->
           FilterStep(pathsFilter[n], b.pathsResult[n], changedFiles,
                      successfulRun, b.distanceToHEAD)],
      allChangedFiles |-> Append(b.allChangedFiles, changedFiles)]

\* The locals after the loop body ran on `commit`.
LoopBody(inp, c, b, commit) ==
  LET changedFiles == ChangedFilesOf(commit)
      successfulRun == IF b.distanceToHEAD > 0
                       THEN findSuccessfulDuplicateRun(c, commit.tree)
                       ELSE NoRun
      pathsFilter == PathsFilterOf(inp)
  IN [iterSha |-> commit.parent,
      distanceToHEAD |-> b.distanceToHEAD + 1,
      pathsResult |->
        [n \in DOMAIN b.pathsResult |->
           IF b.pathsResult[n].should_skip = Null
           THEN FilterStep(pathsFilter[n], b.pathsResult[n], changedFiles,
                           successfulRun, b.distanceToHEAD)
           ELSE b.pathsResult[n]],
      allChangedFiles |-> Append(b.allChangedFiles, changedFiles)]

backtracePathSkipping(i) ==
  /\ pc[i] = "paths"
  /\ \E fetchOk \in Outcomes :
       LET b == bt[i]
           commit == IF b.iterSha = NoHash \/ ~fetchOk THEN NoCommit
                     ELSE commits[b.iterSha]
           nb == LoopBody(inputs, context[i], b, commit)
       IN IF commit = NoCommit
          THEN \* break: the loop ends with the filters as they are
               /\ result' = [result EXCEPT ![i] = PathsVerdict(b)]
               /\ pc' = [pc EXCEPT ![i] = "exit"]
               /\ UNCHANGED bt
          ELSE /\ bt' = [bt EXCEPT ![i] = nb]
               /\ IF b.distanceToHEAD >= MaxBacktrace
                     \/ ~hasUnknownFilters(nb.pathsResult)
                  THEN /\ result' = [result EXCEPT ![i] = PathsVerdict(nb)]
                       /\ pc' = [pc EXCEPT ![i] = "exit"]
                  ELSE UNCHANGED <<result, pc>>
  /\ UNCHANGED <<inputs, mayFail, apiRuns, commits, artifacts, nextArtifactId, context,
                 cancelReqs, outputs>>

(***************************************************************************)
(* exitSuccess: the ledger is written, the outputs are set, exit code 0.   *)
(***************************************************************************)
KeptArtifacts == 4

\* A variant that leaves the cause of a skip out of the entry.
ArtifactResultWithoutCause(res) ==
  [should_skip |-> res.should_skip, reason |-> res.reason,
   skipped_by |-> NoRunId,
   paths_result |-> [n \in DOMAIN res.paths_result |->
                       [res.paths_result[n] EXCEPT !.skipped_by = NoRunId]],
   changed_files |-> res.changed_files]

\* Result.artifact / PathsResult.artifact: skipped_by becomes the run's id.
ArtifactResultOf(res) ==
  [should_skip |-> res.should_skip, reason |-> res.reason,
   skipped_by |-> res.skipped_by.id,
   paths_result |-> [n \in DOMAIN res.paths_result |->
                       [res.paths_result[n] EXCEPT !.skipped_by = @.id]],
   changed_files |-> res.changed_files]

\* A variant that writes the entry of the current run only.
ArtifactDataOfCurrent(c, res) ==
  [k \in {c.currentRun.id} |->
     [c.artifactRuns[k] EXCEPT !.r = ArtifactResultOf(res)]]

\* artifactData.r: every entry of context.artifactRuns, the current run's with r.
ArtifactDataOf(c, res) ==
  [k \in DOMAIN c.artifactRuns |->
     IF k = c.currentRun.id
     THEN [c.artifactRuns[k] EXCEPT !.r = ArtifactResultOf(res)]
     ELSE c.artifactRuns[k]]

\* A variant that keeps three blobs of the listing.
ToDeleteFromFourth(c) ==
  {c.artifactIds[k] : k \in KeptArtifacts..Len(c.artifactIds)}

\* this.context.artifactIds.slice(4)
ToDelete(c) ==
  {c.artifactIds[k] : k \in (KeptArtifacts + 1)..Len(c.artifactIds)}

NoOutputs == [set |-> FALSE, should_skip |-> FALSE, reason |-> "",
              skipped_by |-> NoRun, paths_result |-> NoPathsResult,
              changed_files |-> <<>>]

\* A variant that never sets skipped_by.
OutputsWithoutCause(res) ==
  [set |-> TRUE, should_skip |-> res.should_skip, reason |-> res.reason,
   skipped_by |-> NoRun, paths_result |-> res.paths_result,
   changed_files |-> res.changed_files]

\* core.setOutput of should_skip, reason, skipped_by || {}, paths_result || {}
\* and changed_files || [].
OutputsOf(res) ==
  [set |-> TRUE, should_skip |-> res.should_skip, reason |-> res.reason,
   skipped_by |-> res.skipped_by, paths_result |-> res.paths_result,
   changed_files |-> res.changed_files]

ExitSuccess(i) ==
  /\ pc[i] = "exit"
  /\ \E uploadOk \in Outcomes :
       IF uploadOk
       THEN \E deleted \in (IF mayFail THEN SUBSET ToDelete(context[i])
                            ELSE {ToDelete(context[i])}) :
              /\ artifacts' =
                   <<[id |-> nextArtifactId,
                      data |-> ArtifactDataOf(context[i], result[i])]>>
                   \o SelectSeq(artifacts, LAMBDA a : a.id \notin deleted)
              /\ nextArtifactId' = nextArtifactId + 1
       ELSE UNCHANGED <<artifacts, nextArtifactId>>
  /\ outputs' = [outputs EXCEPT ![i] = OutputsOf(result[i])]
  /\ pc' = [pc EXCEPT ![i] = "done"]
  /\ UNCHANGED <<inputs, mayFail, apiRuns, commits, context, cancelReqs, bt, result>>

(***************************************************************************)
(* Initial states.  Every specification runs the same invocation steps;    *)
(* each draws the remote store and the inputs from its own family.         *)
(***************************************************************************)
InputsOf(paths, paths_ignore, paths_filter, do_not_skip, policy, cancel, sa) ==
  [paths |-> paths, paths_ignore |-> paths_ignore,
   paths_filter |-> paths_filter, do_not_skip |-> do_not_skip,
   concurrent_skipping |-> policy, cancel_others |-> cancel,
   skip_after_successful_duplicates |-> sa]

NoFilters == [n \in {} |-> 0]

\* A run as the platform reports it.  tree_id is the tree of the head commit;
\* context_sha is the commit checked out (the merge commit on pull_request).
ApiRunOf(id, event, head, ctx, status, conclusion, branch, repo, created, cm) ==
  [id |-> id, run_number |-> id, event |-> event,
   tree_id |-> cm[head].tree, head_sha |-> head,
   context_sha |-> IF event = "pull_request" THEN ctx ELSE head,
   status |-> status, conclusion |-> conclusion, head_branch |-> branch,
   repo |-> repo, created_at |-> created]

\* created_at never decreases with the run number: the first run is at time 1
\* and each later one at the time of the run before it or one later.
CreatedPatterns ==
  {f \in [RunIds -> 1..MaxCreatedAt] :
     /\ f[1] = 1
     /\ \A a \in RunIds \ {1} : f[a] \in {f[a - 1], f[a - 1] + 1}}

\* A run that does not exist (yet).
NoApiRun(id) ==
  [id |-> id, run_number |-> id, event |-> "", tree_id |-> NoHash,
   head_sha |-> NoHash, context_sha |-> NoHash, status |-> "none",
   conclusion |-> "", head_branch |-> "", repo |-> "", created_at |-> 0]

\* All the ways to give each run 1..n one of its candidates cands[n].
RunProduct(n, cands) ==
  LET P[k \in 0..n] ==
        IF k = 0 THEN {<<>>}
        ELSE {Append(s, x) : s \in P[k - 1], x \in cands[k]}
  IN P[n]

\* A ledger entry as an earlier invocation of run r wrote it.
LedgerEntry(r) ==
  [t |-> IF apiRuns[r].event = "pull_request"
         THEN commits[apiRuns[r].context_sha].tree ELSE NoHash,
   r |-> [NoArtifactResult EXCEPT !.reason = "no_transferable_run"]]

InitProcess(active) ==
  /\ nextArtifactId = Len(artifacts) + 1
  /\ pc = [i \in RunIds |-> IF i \in active THEN "idle" ELSE "off"]
  /\ context = [i \in RunIds |-> NoContext]
  /\ cancelReqs = [i \in RunIds |-> <<>>]
  /\ bt = [i \in RunIds |-> NoBacktrace]
  /\ result = [i \in RunIds |-> NoResult]
  /\ outputs = [i \in RunIds |-> NoOutputs]

(***************************************************************************)
(* SpecDecide: one invocation against an arbitrary listing and ledger      *)
(* (triggers, tree hashes, statuses, ledger entries, policies).            *)
(***************************************************************************)
\* c1 changes a document on top of c2, the root commit.
DecideCommits ==
  [s \in {"c1", "c2"} |->
     IF s = "c1"
     THEN [tree |-> "T1", hasFiles |-> TRUE, files |-> {"docs/a.md"},
           parent |-> "c2"]
     ELSE [tree |-> "T2", hasFiles |-> TRUE, files |-> {"src/a.ts"},
           parent |-> NoHash]]

StatusConclusions ==
  {<<"in_progress", "">>, <<"completed", "success">>,
   <<"completed", "failure">>}

DecideCand(r, cur, created) ==
  IF r \notin Listed THEN {NoApiRun(r)}
  ELSE IF r = cur
  THEN {ApiRunOf(r, ev, "c1", cx, "in_progress", "", "main", "origin",
                 created[r], DecideCommits) :
          ev \in {"push", "workflow_dispatch"}, cx \in {"c1"}}
       \cup
       {ApiRunOf(r, "pull_request", "c1", cx, "in_progress", "", "main",
                 "origin", created[r], DecideCommits) : cx \in {"c1", "c2"}}
  ELSE {ApiRunOf(r, "push", hd, hd, sc[1], sc[2], "main", "origin",
                 created[r], DecideCommits) :
          hd \in {"c1", "c2"}, sc \in StatusConclusions}
       \cup
       {ApiRunOf(r, "pull_request", hd, cx, sc[1], sc[2], "main", "origin",
                 created[r], DecideCommits) :
          hd \in {"c1", "c2"}, cx \in {"c1", "c2"},
          sc \in StatusConclusions}

\* The ledger: no artifact, or one holding the entries of some of the runs
\* `writers`, as their invocations wrote them.
InitLedger(writers) ==
  \E L \in SUBSET writers :
    artifacts = IF L = {} THEN <<>>
                ELSE <<[id |-> 1, data |-> [r \in L |-> LedgerEntry(r)]]>>

InitDecide ==
  /\ inputs \in {InputsOf({}, ign, NoFilters, dns, pol, FALSE, sa) :
                   ign \in {{}, {"docs/**"}},
                   dns \in {{}, {"workflow_dispatch"}},
                   pol \in ConcurrentSkippingType, sa \in BOOLEAN}
  /\ mayFail \in BOOLEAN
  /\ commits = DecideCommits
  /\ \E cur \in Listed, created \in CreatedPatterns :
       /\ apiRuns \in RunProduct(NumRuns,
                                 [r \in RunIds |-> DecideCand(r, cur, created)])
       /\ InitLedger({r \in Listed \ {cur} :
                        /\ apiRuns[r].event = "pull_request"
                        /\ apiRuns[r].status = "completed"})
       /\ InitProcess({cur})

NextDecide ==
  \E i \in RunIds :
    Main(i) \/ Run(i) \/ backtracePathSkipping(i) \/ ExitSuccess(i)

SpecDecide == InitDecide /\ [][NextDecide]_vars

(***************************************************************************)
(* SpecCancel: one invocation with cancel_others against listings of runs  *)
(* of several branches, repositories, statuses and tree hashes.            *)
(***************************************************************************)
CancelCand(r, cur, created) ==
  IF r \notin Listed THEN {NoApiRun(r)}
  ELSE IF r = cur
  THEN {ApiRunOf(r, "push", "c1", "c1", "in_progress", "", "main", "origin",
                 created[r], DecideCommits)}
  ELSE LET listed ==
             {ApiRunOf(r, "push", hd, hd, sc[1], sc[2], br, rp, created[r],
                       DecideCommits) :
                hd \in {"c1", "c2"},
                sc \in {<<"queued", "">>, <<"in_progress", "">>,
                        <<"completed", "success">>},
                br \in {"main", "dev"}, rp \in {"origin", "fork"}}
       IN listed \cup
          \* runs of a headless or removed commit: no head_commit
          {[run EXCEPT !.tree_id = NoHash] :
             run \in {x \in listed : x.head_sha = "c2"}}

InitCancel ==
  /\ inputs \in {InputsOf({}, {}, NoFilters, dns, pol, TRUE, TRUE) :
                   dns \in {{}, {"push"}}, pol \in {"never", "always"}}
  /\ mayFail \in BOOLEAN
  /\ commits = DecideCommits
  /\ \E cur \in Listed, created \in CreatedPatterns :
       /\ apiRuns \in RunProduct(NumRuns,
                                 [r \in RunIds |-> CancelCand(r, cur, created)])
       /\ artifacts = <<>>
       /\ InitProcess({cur})

NextCancel ==
  \E i \in RunIds :
    Main(i) \/ CancelOutdatedRuns(i) \/ Run(i) \/ ExitSuccess(i)

SpecCancel == InitCancel /\ [][NextCancel]_vars

(***************************************************************************)
(* SpecIdentity: one invocation with cancel_others whose own run may lack  *)
(* its head commit or its head repository, next to older runs that may     *)
(* lack a head repository too.                                             *)
(***************************************************************************)
\* repo of a run without head_repository: full_name ?? null.
NoRepo == "null"

IdentityCand(r, cur, created) ==
  IF r = cur
  THEN LET run == ApiRunOf(r, "push", "c1", "c1", "in_progress", "", "main",
                           "origin", created[r], DecideCommits)
       IN {run, [run EXCEPT !.tree_id = NoHash], [run EXCEPT !.repo = NoRepo]}
  ELSE {NoApiRun(r)} \cup
       {ApiRunOf(r, "push", hd, hd, sc[1], sc[2], "main", rp, created[r],
                 DecideCommits) :
          hd \in {"c1", "c2"},
          sc \in {<<"in_progress", "">>, <<"completed", "success">>},
          rp \in {"origin", NoRepo}}

InitIdentity ==
  /\ inputs \in {InputsOf({}, {}, NoFilters, {}, pol, cancel, TRUE) :
                   pol \in {"never", "same_content"}, cancel \in BOOLEAN}
  /\ mayFail \in BOOLEAN
  /\ commits = DecideCommits
  /\ \E cur \in RunIds, created \in CreatedPatterns :
       /\ apiRuns \in RunProduct(NumRuns,
                                 [r \in RunIds |-> IdentityCand(r, cur, created)])
       /\ artifacts = <<>>
       /\ InitProcess({cur})

NextIdentity ==
  \E i \in RunIds :
    Main(i) \/ CancelOutdatedRuns(i) \/ Run(i) \/ ExitSuccess(i)

SpecIdentity == InitIdentity /\ [][NextIdentity]_vars

(***************************************************************************)
(* SpecPaths: one invocation with path filters against first-parent chains *)
(* of commits and one or more other runs.                                  *)
(***************************************************************************)
\* HEAD and its first-parent ancestors, nearest first.
Chain == <<"c1", "c2", "c3">>
TreeOf(sha) == CASE sha = "c1" -> "T1" [] sha = "c2" -> "T2" [] OTHER -> "T3"

\* The changed files a commit can have; NoFiles is a commit without `files`.
NoFiles == {"no files"}
ChangedFileSets == {{"docs/a.md"}, {"docs/a.md", "src/a.ts"}, NoFiles}

\* The chain cut after its first len commits; the other commits are detached.
PathsCommits(len, files) ==
  [s \in Shas |->
     LET k == CHOOSE j \in 1..Len(Chain) : Chain[j] = s
     IN IF k > len
        THEN [tree |-> TreeOf(s), hasFiles |-> TRUE, files |-> {},
              parent |-> NoHash]
        ELSE [tree |-> TreeOf(s), hasFiles |-> files[k] # NoFiles,
              files |-> IF files[k] = NoFiles THEN {} ELSE files[k],
              parent |-> IF k < len THEN Chain[k + 1] ELSE NoHash]]

PathsHistories ==
  UNION {{PathsCommits(len, files) : files \in [1..len -> ChangedFileSets]} :
           len \in 1..Len(Chain)}

Backtrackings == {Unlimited, Disabled} \cup {Limit(n) : n \in 0..MaxLimit}

\* The named filter "F": a deny-list, an allow-list or both.
PathsFilters ==
  {[f \in {"F"} |-> [paths |-> pi[1], paths_ignore |-> pi[2],
                     backtracking |-> b]] :
     pi \in {<<{}, {"docs/**"}>>, <<{"src/**"}, {}>>,
             <<{"src/**"}, {"docs/**"}>>},
     b \in Backtrackings}

PathsCand(r, cur, created, cm) ==
  IF r \notin Listed THEN {NoApiRun(r)}
  ELSE IF r = cur
  THEN {ApiRunOf(r, "push", Chain[1], Chain[1], "in_progress", "", "main",
                 "origin", created[r], cm)}
  ELSE {ApiRunOf(r, ev, hd, hd, sc[1], sc[2], "main", "origin", created[r],
                 cm) :
          ev \in {"push", "pull_request"}, hd \in Shas,
          sc \in StatusConclusions}

InitPaths ==
  /\ inputs \in {InputsOf({}, ign, pf, {}, "never", FALSE, TRUE) :
                   ign \in {{}, {"docs/**"}}, pf \in PathsFilters}
  /\ mayFail \in BOOLEAN
  /\ commits \in PathsHistories
  /\ \E created \in CreatedPatterns :
       /\ apiRuns \in RunProduct(NumRuns,
            [r \in RunIds |-> PathsCand(r, NumListed, created, commits)])
       /\ InitLedger({r \in Listed :
                        /\ apiRuns[r].event = "pull_request"
                        /\ apiRuns[r].status = "completed"})
       /\ InitProcess({NumListed})

NextPaths ==
  \E i \in RunIds :
    Main(i) \/ Run(i) \/ backtracePathSkipping(i) \/ ExitSuccess(i)

SpecPaths == InitPaths /\ [][NextPaths]_vars

(***************************************************************************)
(* SpecHead: the path walk of an invocation that does not skip after       *)
(* successful duplicates, so that a successful run of the starting         *)
(* commit's own tree hash does not end the invocation before the walk.     *)
(***************************************************************************)
HeadCand(r, cur, created, cm) ==
  IF r \notin Listed THEN {NoApiRun(r)}
  ELSE IF r = cur
  THEN {ApiRunOf(r, "push", Chain[1], Chain[1], "in_progress", "", "main",
                 "origin", created[r], cm)}
  ELSE {ApiRunOf(r, "push", hd, hd, sc[1], sc[2], "main", "origin",
                 created[r], cm) :
          hd \in Shas, sc \in StatusConclusions}

InitHead ==
  /\ inputs \in {InputsOf({}, ign, pf, {}, "never", FALSE, FALSE) :
                   ign \in {{}, {"docs/**"}}, pf \in PathsFilters}
  /\ mayFail \in BOOLEAN
  /\ commits \in PathsHistories
  /\ \E created \in CreatedPatterns :
       /\ apiRuns \in RunProduct(NumRuns,
            [r \in RunIds |-> HeadCand(r, NumListed, created, commits)])
       /\ artifacts = <<>>
       /\ InitProcess({NumListed})

NextHead ==
  \E i \in RunIds :
    Main(i) \/ Run(i) \/ backtracePathSkipping(i) \/ ExitSuccess(i)

SpecHead == InitHead /\ [][NextHead]_vars

(***************************************************************************)
(* SpecRerun: the invocation of SpecDecide, no remote call failing, is     *)
(* started again for the same run against the store as it left it.         *)
(***************************************************************************)
\* The job of run i is run again: a new process, nothing kept but the store.
Rerun(i) ==
  /\ pc[i] = "done"
  /\ Len(artifacts) < MaxArtifacts
  /\ pc' = [pc EXCEPT ![i] = "idle"]
  /\ context' = [context EXCEPT ![i] = NoContext]
  /\ cancelReqs' = [cancelReqs EXCEPT ![i] = <<>>]
  /\ bt' = [bt EXCEPT ![i] = NoBacktrace]
  /\ result' = [result EXCEPT ![i] = NoResult]
  /\ outputs' = [outputs EXCEPT ![i] = NoOutputs]
  /\ UNCHANGED <<inputs, mayFail, apiRuns, commits, artifacts, nextArtifactId>>

InitRerun == InitDecide /\ ~mayFail

NextRerun ==
  \E i \in RunIds :
    \/ Main(i)
    \/ Run(i)
    \/ backtracePathSkipping(i)
    \/ ExitSuccess(i)
    \/ Rerun(i)

SpecRerun == InitRerun /\ [][NextRerun]_vars

(***************************************************************************)
(* SpecWalk: one invocation with path filters against histories that may   *)
(* be longer than the ceiling of the walk.                                 *)
(***************************************************************************)
\* A history folded at its oldest commit: that commit stands for every older
\* one (it is its own first parent), so the chain never ends.
Folded(cm) ==
  [s \in Shas |->
     IF cm[s].parent = NoHash
        /\ \/ s = Chain[1]
           \/ \E q \in Shas : cm[q].parent = s
     THEN [cm[s] EXCEPT !.parent = s]
     ELSE cm[s]]

WalkHistories == PathsHistories \cup {Folded(cm) : cm \in PathsHistories}

WalkCand(r, cur, cm) ==
  IF r \notin Listed THEN {NoApiRun(r)}
  ELSE IF r = cur
  THEN {ApiRunOf(r, "push", Chain[1], Chain[1], "in_progress", "", "main",
                 "origin", r, cm)}
  ELSE {ApiRunOf(r, "push", hd, hd, sc[1], sc[2], "main", "origin", r, cm) :
          hd \in Shas,
          sc \in {<<"in_progress", "">>, <<"completed", "success">>}}

InitWalk ==
  /\ inputs \in {InputsOf({}, ign, pf, {}, "never", FALSE, TRUE) :
                   ign \in {{}, {"docs/**"}}, pf \in PathsFilters}
  /\ mayFail \in BOOLEAN
  /\ commits \in WalkHistories
  /\ apiRuns \in RunProduct(NumRuns,
       [r \in RunIds |-> WalkCand(r, NumListed, commits)])
  /\ artifacts = <<>>
  /\ InitProcess({NumListed})

NextWalk ==
  \E i \in RunIds :
    Main(i) \/ Run(i) \/ backtracePathSkipping(i) \/ ExitSuccess(i)

SpecWalk == InitWalk /\ [][NextWalk]_vars

(***************************************************************************)
(* SpecOrder: one invocation with every component switched on or off.      *)
(***************************************************************************)
OrderCand(r, cur, created) ==
  IF r = cur
  THEN {ApiRunOf(r, "push", "c1", "c1", "in_progress", "", "main", "origin",
                 created[r], DecideCommits)}
  ELSE {ApiRunOf(r, "push", hd, hd, sc[1], sc[2], br, "origin", created[r],
                 DecideCommits) :
          hd \in {"c1", "c2"},
          sc \in {<<"in_progress", "">>, <<"completed", "success">>},
          br \in {"main", "dev"}}

InitOrder ==
  /\ inputs \in {InputsOf({}, ign, NoFilters, dns, pol, cancel, sa) :
                   ign \in {{}, {"docs/**"}}, dns \in {{}, {"push"}},
                   pol \in {"never", "same_content", "always"},
                   cancel \in BOOLEAN, sa \in BOOLEAN}
  /\ mayFail \in BOOLEAN
  /\ commits = DecideCommits
  /\ \E cur \in RunIds, created \in CreatedPatterns :
       /\ apiRuns \in RunProduct(NumRuns,
                                 [r \in RunIds |-> OrderCand(r, cur, created)])
       /\ artifacts = <<>>
       /\ InitProcess({cur})

NextOrder ==
  \E i \in RunIds :
    \/ Main(i)
    \/ CancelOutdatedRuns(i)
    \/ Run(i)
    \/ backtracePathSkipping(i)
    \/ ExitSuccess(i)

SpecOrder == InitOrder /\ [][NextOrder]_vars

(***************************************************************************)
(* SpecConfig: one invocation with well-formed or malformed inputs against *)
(* listings with duplicates, concurrent runs and cancel candidates.        *)
(***************************************************************************)
\* A named filter with a string for backtracking.
BadFilter ==
  [f \in {"F"} |-> [paths |-> {}, paths_ignore |-> {"docs/**"},
                    backtracking |-> [kind |-> "string", b |-> FALSE, n |-> 0]]]

ConfigInputs ==
  {InputsOf(p, ign, flt, dns, pol, cancel, TRUE) :
     p \in {{}, {NotAString}},
     ign \in {{"docs/**"}, {"docs/**", NotAString}},
     flt \in {NoFilters, BadFilter},
     dns \in {{}, {"push"}, {"fork"}},
     pol \in {"same_content", "sometimes"},
     cancel \in BOOLEAN}

InitConfig ==
  /\ inputs \in ConfigInputs
  /\ mayFail \in BOOLEAN
  /\ commits = DecideCommits
  /\ \E cur \in RunIds, created \in CreatedPatterns :
       /\ apiRuns \in RunProduct(NumRuns,
                                 [r \in RunIds |-> OrderCand(r, cur, created)])
       /\ artifacts = <<>>
       /\ InitProcess({cur})

NextConfig ==
  \E i \in RunIds :
    \/ Main(i)
    \/ CancelOutdatedRuns(i)
    \/ Run(i)
    \/ backtracePathSkipping(i)
    \/ ExitSuccess(i)

SpecConfig == InitConfig /\ [][NextConfig]_vars

(***************************************************************************)
(* Spec: the runs of one workflow on one branch are created one after the  *)
(* other, each runs its invocation, and the invocations interleave with    *)
(* one another and with the platform completing the runs.                  *)
(***************************************************************************)
\* A run that is pushed later: everything but its status is known.
PlannedRun(r, head) ==
  [ApiRunOf(r, "push", head, head, "none", "", "main", "origin", r,
            DecideCommits) EXCEPT !.status = "none"]

\* The platform starts the next run of the workflow.
CreateRun(r) ==
  /\ apiRuns[r].status = "none"
  /\ \A q \in RunIds : q < r => apiRuns[q].status # "none"
  /\ apiRuns' = [apiRuns EXCEPT ![r].status = "in_progress"]
  /\ UNCHANGED <<inputs, mayFail, commits, artifacts, nextArtifactId, pc,
                 context, cancelReqs, bt, result, outputs>>

\* The platform completes a run whose invocation ended and that nobody
\* cancelled: its jobs ran, or were skipped, to the end.
Complete(r) ==
  /\ apiRuns[r].status = "in_progress"
  /\ pc[r] = "done"
  /\ apiRuns' = [apiRuns EXCEPT ![r].status = "completed",
                                ![r].conclusion = "success"]
  /\ UNCHANGED <<inputs, mayFail, commits, artifacts, nextArtifactId, pc,
                 context, cancelReqs, bt, result, outputs>>

Init ==
  /\ inputs \in {InputsOf({}, {}, NoFilters, {}, pol, cancel, TRUE) :
                   pol \in ConcurrentSkippingType, cancel \in BOOLEAN}
  /\ mayFail = FALSE
  /\ commits = DecideCommits
  /\ apiRuns \in RunProduct(NumRuns,
                            [r \in RunIds |->
                               {PlannedRun(r, head) :
                                  head \in IF r = 1 THEN {"c1"}
                                           ELSE {"c1", "c2"}}])
  /\ artifacts = <<>>
  /\ InitProcess(RunIds)

Next ==
  \E i \in RunIds :
    \/ CreateRun(i)
    \/ Main(i)
    \/ CancelOutdatedRuns(i)
    \/ Run(i)
    \/ ExitSuccess(i)
    \/ Complete(i)

Spec == Init /\ [][Next]_vars

(***************************************************************************)
(* SpecShared: the runs of one workflow, pushes and pull requests, come up *)
(* one after the other and their invocations interleave over one ledger.   *)
(***************************************************************************)
SharedRun(r) ==
  {[ApiRunOf(r, ev[1], ev[2], ev[3], "none", "", "main", "origin", r,
             DecideCommits) EXCEPT !.status = "none"] :
     ev \in {<<"push", "c1", "c1">>, <<"push", "c2", "c2">>,
             <<"pull_request", "c1", "c2">>, <<"pull_request", "c2", "c1">>}}

InitShared ==
  /\ inputs = InputsOf({}, {}, NoFilters, {}, "never", FALSE, TRUE)
  /\ mayFail = FALSE
  /\ commits = DecideCommits
  /\ apiRuns \in RunProduct(NumRuns, [r \in RunIds |-> SharedRun(r)])
  /\ artifacts = <<>>
  /\ InitProcess(RunIds)

NextShared ==
  \E i \in RunIds :
    \/ CreateRun(i)
    \/ Main(i)
    \/ Run(i)
    \/ ExitSuccess(i)
    \/ Complete(i)

SpecShared == InitShared /\ [][NextShared]_vars

(***************************************************************************)
(* SpecRetain: the invocations of the runs in progress interleave over a   *)
(* ledger that already holds the blobs of earlier attempts of the first    *)
(* run.                                                                    *)
(***************************************************************************)
\* k blobs, the newest first, each with the entry of run 1.
BlobsOf(k) ==
  [j \in 1..k |-> [id |-> k + 1 - j, data |-> [r \in {1} |-> LedgerEntry(1)]]]

InitRetain ==
  /\ inputs = InputsOf({}, {}, NoFilters, {}, "never", FALSE, TRUE)
  /\ mayFail \in BOOLEAN
  /\ commits = DecideCommits
  /\ apiRuns = [r \in RunIds |->
                  ApiRunOf(r, "push", "c1", "c1", "in_progress", "", "main",
                           "origin", r, DecideCommits)]
  /\ \E k \in 0..NumBlobs : artifacts = BlobsOf(k)
  /\ InitProcess(RunIds)

NextRetain ==
  \E i \in RunIds : Main(i) \/ Run(i) \/ ExitSuccess(i)

SpecRetain == InitRetain /\ [][NextRetain]_vars

(***************************************************************************)
(* SpecNested: the path walk of an invocation whose named filter has an    *)
(* allow-list and a deny-list for a folder inside it, over commits that    *)
(* change files of the folder, of the rest of the allow-list and outside.  *)
(***************************************************************************)
NestedFileSets ==
  {{"src/docs/a.md"}, {"src/docs/a.md", "docs/a.md"},
   {"src/docs/a.md", "src/a.ts"}, {"docs/a.md"}}

NestedHistories ==
  UNION {{PathsCommits(len, files) : files \in [1..len -> NestedFileSets]} :
           len \in 1..Len(Chain)}

\* The named filter "F": src/** without src/docs/**, or src/** alone.
NestedFilters ==
  {[f \in {"F"} |-> [paths |-> {"src/**"}, paths_ignore |-> ign,
                     backtracking |-> b]] :
     ign \in {{"src/docs/**"}, {}}, b \in Backtrackings}

InitNested ==
  /\ inputs \in {InputsOf({}, {}, pf, {}, "never", FALSE, FALSE) :
                   pf \in NestedFilters}
  /\ mayFail \in BOOLEAN
  /\ commits \in NestedHistories
  /\ \E created \in CreatedPatterns :
       /\ apiRuns \in RunProduct(NumRuns,
            [r \in RunIds |-> HeadCand(r, NumListed, created, commits)])
       /\ artifacts = <<>>
       /\ InitProcess({NumListed})

NextNested ==
  \E i \in RunIds :
    Main(i) \/ Run(i) \/ backtracePathSkipping(i) \/ ExitSuccess(i)

SpecNested == InitNested /\ [][NextNested]_vars

(***************************************************************************)
(* SpecStore: invocations of one run, started again and again, against a   *)
(* listing in which runs may be missing or lack their head commit and a    *)
(* ledger that may hold an entry of any run.                               *)
(***************************************************************************)
StoreCand(r, cur, created) ==
  IF r = cur
  THEN {ApiRunOf(r, ev[1], "c1", ev[2], "in_progress", "", "main", "origin",
                 created[r], DecideCommits) :
          ev \in {<<"push", "c1">>, <<"pull_request", "c2">>}}
  ELSE LET listed ==
             {ApiRunOf(r, ev[1], hd, ev[2], sc[1], sc[2], "main", "origin",
                       created[r], DecideCommits) :
                ev \in {<<"push", "c1">>, <<"pull_request", "c2">>},
                hd \in {"c1", "c2"},
                sc \in {<<"in_progress", "">>, <<"completed", "success">>}}
       IN listed \cup {NoApiRun(r)} \cup
          \* runs of a headless or removed commit: no head_commit
          {[run EXCEPT !.tree_id = NoHash] :
             run \in {x \in listed : x.head_sha = "c2"}}

InitStore ==
  /\ inputs = InputsOf({}, {}, NoFilters, {}, "never", FALSE, TRUE)
  /\ mayFail \in BOOLEAN
  /\ commits = DecideCommits
  /\ \E cur \in RunIds, created \in CreatedPatterns :
       /\ apiRuns \in RunProduct(NumRuns,
                                 [r \in RunIds |-> StoreCand(r, cur, created)])
       /\ InitLedger(RunIds)
       /\ InitProcess({cur})

NextStore ==
  \E i \in RunIds : Main(i) \/ Run(i) \/ ExitSuccess(i) \/ Rerun(i)

SpecStore == InitStore /\ [][NextStore]_vars

(***************************************************************************)
(* Properties of one invocation (SpecDecide).                              *)
(***************************************************************************)
\* The invocation of run i set its outputs and ended with exit code 0.
Emitted(i) == pc[i] = "done" /\ outputs[i].set

\* Run r is strictly older than run i, completed, with the given conclusion.
OlderCompleted(i, r, conclusion) ==
  /\ r # i
  /\ apiRuns[r].status = "completed"
  /\ apiRuns[r].conclusion = conclusion
  /\ apiRuns[r].created_at < apiRuns[i].created_at

\* The tree hash the invocation of run i holds for run r: the one its ledger
\* read (or, for r = i, its secondary query) gave for a pull_request run, the
\* reported one otherwise.
LedgerTree(i, r) ==
  IF apiRuns[r].event # "pull_request" THEN apiRuns[r].tree_id
  ELSE IF r \in DOMAIN context[i].artifactRuns
    THEN context[i].artifactRuns[r].t
  ELSE NoHash

SuccessfulOlder(i) ==
  {r \in RunIds : /\ OlderCompleted(i, r, "success")
                  /\ LedgerTree(i, i) # NoHash
                  /\ LedgerTree(i, r) = LedgerTree(i, i)}

FailedOlder(i) ==
  {r \in RunIds : /\ OlderCompleted(i, r, "failure")
                  /\ LedgerTree(i, i) # NoHash
                  /\ LedgerTree(i, r) = LedgerTree(i, i)}

\* The duplicate check applies to the invocation of run i.
DuplicateCheckApplies(i) ==
  /\ apiRuns[i].event \notin inputs.do_not_skip
  /\ inputs.skip_after_successful_duplicates

\* C1: when an invocation's duplicate check applies (trigger not in
\* do_not_skip, skip_after_successful_duplicates) and a strictly older run is
\* completed with success and has the current run's tree hash, the tree hash
\* of a pull_request run being the one looked up in the ledger, the invocation
\* emits skip, reason skip_after_successful_duplicate, skipped_by such a run.
C1_SuccessfulDuplicateSkips ==
  \A i \in RunIds :
    (Emitted(i) /\ DuplicateCheckApplies(i) /\ SuccessfulOlder(i) # {})
      => /\ outputs[i].should_skip
         /\ outputs[i].reason = "skip_after_successful_duplicate"
         /\ outputs[i].skipped_by.id \in SuccessfulOlder(i)

\* C1, witness: a pull_request run skipped citing an older successful
\* pull_request run whose tree hash came from the ledger.
C1_Witness ==
  \E i \in RunIds, r \in RunIds :
    /\ Emitted(i) /\ r \in SuccessfulOlder(i)
    /\ apiRuns[i].event = "pull_request" /\ apiRuns[r].event = "pull_request"
    /\ outputs[i].reason = "skip_after_successful_duplicate"
    /\ outputs[i].skipped_by.id = r

\* C2: an invocation whose run was triggered by an event of do_not_skip emits
\* should_skip = false with reason do_not_skip, whatever the listing, the
\* ledger, the policy and the filters are.
C2_DoNotSkip ==
  \A i \in RunIds :
    (Emitted(i) /\ apiRuns[i].event \in inputs.do_not_skip)
      => /\ ~outputs[i].should_skip
         /\ outputs[i].reason = "do_not_skip"
         /\ outputs[i].skipped_by = NoRun

\* C2, witness: do_not_skip won although a successful duplicate and a
\* concurrent run were there and a filter was configured.
C2_Witness ==
  \E i \in RunIds, r \in RunIds :
    /\ Emitted(i) /\ apiRuns[i].event \in inputs.do_not_skip
    /\ inputs.skip_after_successful_duplicates
    /\ r \in SuccessfulOlder(i)
    /\ inputs.concurrent_skipping = "always"
    /\ inputs.paths_ignore # {}

\* A failed duplicate and no successful one.
OnlyFailedDuplicate(i) ==
  /\ pc[i] \notin {"idle", "off"}
  /\ DuplicateCheckApplies(i)
  /\ FailedOlder(i) # {}
  /\ SuccessfulOlder(i) = {}

PolicyCandidates(i) ==
  {r \in RunIds \ {i} :
     /\ apiRuns[r].status \notin {"none", "completed"}
     /\ CASE inputs.concurrent_skipping = "always" -> TRUE
          [] inputs.concurrent_skipping = "outdated_runs" ->
               apiRuns[r].created_at > apiRuns[i].created_at
          [] inputs.concurrent_skipping = "same_content" ->
               apiRuns[r].tree_id = apiRuns[i].tree_id
          [] inputs.concurrent_skipping = "same_content_newer" ->
               /\ apiRuns[r].tree_id = apiRuns[i].tree_id
               /\ apiRuns[r].run_number < apiRuns[i].run_number
          [] OTHER -> FALSE}

\* The invocation of run i reaches the concurrency resolver.
ResolverReached(i) ==
  /\ apiRuns[i].event \notin inputs.do_not_skip
  /\ inputs.skip_after_successful_duplicates => SuccessfulOlder(i) = {}

\* C10: an invocation that reaches the concurrency resolver emits skip with
\* reason concurrent_skipping iff some non-completed other run satisfies the
\* policy's rule (always: any; outdated_runs: strictly newer createdAt;
\* same_content: the current tree hash; same_content_newer: the current tree
\* hash and a lower run number; never: none), and skipped_by is such a run.
C10_PolicyTable ==
  \A i \in RunIds :
    (Emitted(i) /\ ResolverReached(i))
      => /\ (outputs[i].reason = "concurrent_skipping")
              <=> (PolicyCandidates(i) # {})
         /\ outputs[i].reason = "concurrent_skipping"
              => /\ outputs[i].should_skip
                 /\ outputs[i].skipped_by.id \in PolicyCandidates(i)

\* C10, witness: under same_content_newer a run skipped citing a non-completed
\* run of its tree hash and a lower run number that is not older than it.
C10_Witness ==
  \E i \in RunIds :
    /\ Emitted(i) /\ ResolverReached(i)
    /\ inputs.concurrent_skipping = "same_content_newer"
    /\ outputs[i].reason = "concurrent_skipping"
    /\ outputs[i].skipped_by.id \in PolicyCandidates(i)
    /\ outputs[i].skipped_by.createdAt = apiRuns[i].created_at

(***************************************************************************)
(* Properties of the interleaved invocations (Spec).                       *)
(***************************************************************************)
\* Run r ended cancelled.
CancelledRun(r) ==
  apiRuns[r].status = "completed" /\ apiRuns[r].conclusion = "cancelled"

\* The invocation of run r emitted a skip verdict.
Skipped(r) == outputs[r].set /\ outputs[r].should_skip

\* Every run was created and is over: cancelled, or completed after its
\* invocation emitted its verdict.
AllOver ==
  \A r \in RunIds :
    /\ apiRuns[r].status = "completed"
    /\ CancelledRun(r) \/ pc[r] = "done"

\* Run r executes the checks of its content to the end: it is neither
\* cancelled nor skipped.
Executes(r) == ~CancelledRun(r) /\ ~Skipped(r)

\* C4 as stated: under same_content_newer a run skipped for a concurrent run
\* is not the lowest-numbered run of its tree hash, a run that observed a
\* non-completed lower-numbered run of its tree hash skips, and when a run was
\* skipped for a concurrent run some run of that tree hash executes its checks
\* (is neither skipped nor cancelled), cancel_others enabled or not.
C4_AsStated ==
  inputs.concurrent_skipping = "same_content_newer"
    => \A i \in RunIds :
         /\ outputs[i].reason = "concurrent_skipping"
              => /\ \E r \in RunIds : /\ r < i
                                      /\ apiRuns[r].tree_id = apiRuns[i].tree_id
                 /\ \E r \in RunIds : /\ apiRuns[r].tree_id = apiRuns[i].tree_id
                                      /\ Executes(r)
         /\ (/\ Emitted(i)
             /\ \E k \in 1..Len(context[i].allRuns) :
                  LET run == context[i].allRuns[k]
                  IN /\ run.status # "completed"
                     /\ run.treeHash = apiRuns[i].tree_id
                     /\ run.runNumber < i)
              => outputs[i].should_skip

\* The newest content: the tree hash of the newest run on the branch.
NewestContent == apiRuns[NumRuns].tree_id

\* Run r does not get its content checked: it is cancelled, or it skipped
\* citing a run that is itself cancelled or skipped.
Lost(r) ==
  \/ CancelledRun(r)
  \/ /\ Skipped(r)
     /\ LET cited == outputs[r].skipped_by.id
        IN CancelledRun(cited) \/ Skipped(cited)

\* C5 as stated: with cancel_others, under any policy and any interleaving,
\* when all runs are over some run of the newest content is neither cancelled
\* nor skipped citing a cancelled or skipped run.
C5_AsStated ==
  (inputs.cancel_others /\ AllOver)
    => \E r \in RunIds : apiRuns[r].tree_id = NewestContent /\ ~Lost(r)

\* Runs r and s have the same tree hash and both invocations skipped for a
\* concurrent run, each citing the other.
MutualSkip(r, s) ==
  /\ r # s
  /\ apiRuns[r].tree_id = apiRuns[s].tree_id
  /\ Skipped(r) /\ outputs[r].reason = "concurrent_skipping"
  /\ outputs[r].skipped_by.id = s
  /\ Skipped(s) /\ outputs[s].reason = "concurrent_skipping"
  /\ outputs[s].skipped_by.id = r

\* C11: under same_content_newer an invocation that skips for a concurrent
\* run cites a run of its tree hash with a lower run number, so in no
\* interleaving do two runs of equal tree hash skip citing each other; under
\* same_content such an interleaving is reachable (the witness).
C11_NewerNeverMutual ==
  inputs.concurrent_skipping = "same_content_newer"
    => /\ \A i \in RunIds :
            (outputs[i].set /\ outputs[i].reason = "concurrent_skipping")
              => /\ outputs[i].skipped_by.runNumber < apiRuns[i].run_number
                 /\ outputs[i].skipped_by.treeHash = apiRuns[i].tree_id
       /\ \A r \in RunIds, s \in RunIds : ~MutualSkip(r, s)

\* C11, witness: under same_content two runs of equal tree hash skipped
\* citing each other, all runs are over and no run of that tree hash executed
\* its checks.
C11_Witness ==
  /\ inputs.concurrent_skipping = "same_content"
  /\ AllOver
  /\ \E r \in RunIds, s \in RunIds :
       /\ MutualSkip(r, s)
       /\ \A q \in RunIds :
            apiRuns[q].tree_id = apiRuns[r].tree_id => ~Executes(q)

(***************************************************************************)
(* Properties of the canceller (SpecCancel).                               *)
(***************************************************************************)
\* The runs the invocation of run i sent a cancel request for.
Requested(i) == {cancelReqs[i][k] : k \in 1..Len(cancelReqs[i])}

\* The outdated runs for the invocation of run i: strictly older, not
\* completed, same branch, same repository, another tree hash.
OutdatedRuns(i) ==
  {r \in RunIds \ {i} :
     /\ apiRuns[r].status \notin {"none", "completed"}
     /\ apiRuns[r].created_at < apiRuns[i].created_at
     /\ apiRuns[r].head_branch = apiRuns[i].head_branch
     /\ apiRuns[r].repo = apiRuns[i].repo
     /\ apiRuns[r].tree_id # NoHash
     /\ apiRuns[r].tree_id # apiRuns[i].tree_id}

\* C6: the step of an invocation that sends the cancel requests sends one for
\* exactly the runs that are, when it is taken, strictly older than the
\* current run, not completed, of its branch and repository and of another
\* tree hash; no other run gets a request.
C6_CancelSet ==
  [][\A i \in RunIds :
       (pc[i] = "cancel" /\ pc'[i] = "run")
         => Requested(i)' = OutdatedRuns(i)]_vars

\* C6, witness: a cancel request was sent and failed: the run is still not
\* completed after the step.
C6_Witness ==
  \E i \in RunIds, r \in RunIds :
    /\ pc[i] = "run"
    /\ r \in Requested(i)
    /\ apiRuns[r].status = "queued"

(***************************************************************************)
(* Properties of the path backtracker (SpecPaths).                         *)
(***************************************************************************)
\* The commit d first-parent steps from sha, NoHash past the root commit.
RECURSIVE AncestorAt(_, _)
AncestorAt(sha, d) ==
  IF sha = NoHash \/ d = 0 THEN sha
  ELSE AncestorAt(commits[sha].parent, d - 1)

\* The changed files of the commit d steps from the head of run i.
FilesAt(i, d) ==
  LET a == AncestorAt(apiRuns[i].head_sha, d)
  IN IF a = NoHash \/ ~commits[a].hasFiles THEN {} ELSE commits[a].files

\* The strictly older completed successful runs whose tree hash is that of
\* the commit d steps from the head of run i.
MatchAt(i, d) ==
  LET a == AncestorAt(apiRuns[i].head_sha, d)
  IN IF a = NoHash THEN {}
     ELSE {r \in RunIds : /\ OlderCompleted(i, r, "success")
                          /\ LedgerTree(i, r) = commits[a].tree}

\* The invocation of run i ended its ancestry walk.
PathsDecided(i) == pc[i] \in {"exit", "done"} /\ result[i].reason = "paths"

\* The walk of run i fetched the commits at the distances 0..d.
Fetched(i, d) == Len(result[i].changed_files) >= d + 1

\* Distance d >= 1 is within the bound of filter f.
WithinBound(f, d) ==
  /\ d <= MaxBacktrace
  /\ \/ f.backtracking.kind = "boolean" /\ f.backtracking.b
     \/ f.backtracking.kind = "boolean" /\ ~f.backtracking.b /\ d <= 1
     \/ f.backtracking.kind = "number" /\ d <= f.backtracking.n

\* Every one of the files matches the deny-list of f.
DenyListed(f, files) ==
  /\ f.paths_ignore # {}
  /\ \A x \in files : \E q \in f.paths_ignore : IsMatch(x, q)

\* None of the files matches the allow-list of f.
NoAllowMatch(f, files) ==
  /\ f.paths # {}
  /\ \A x \in files : \A q \in f.paths : ~IsMatch(x, q)

FilterNames == DOMAIN PathsFilterOf(inputs)
Distances == 1..(Len(Chain) - 1)

\* Filter `name` of run i resolved to skip at distance d, citing a run that
\* matches the commit there.
SkipsAt(i, name, d) ==
  LET res == result[i].paths_result[name]
  IN /\ res.should_skip = True
     /\ res.backtrack_count = d
     /\ res.skipped_by.id \in MatchAt(i, d)

\* C7: when the walk of an invocation fetched the commits up to ancestor A at
\* distance d >= 1 within the bound of filter F, every commit nearer than A
\* (HEAD included) changes only files matching F's deny-list, and A is the
\* nearest ancestor whose tree hash is that of a strictly older completed
\* successful run, F resolves to skip with cause such a run and backtrack
\* distance d.
C7_DenyListChain ==
  \A i \in RunIds, name \in FilterNames, d \in Distances :
    (/\ PathsDecided(i)
     /\ WithinBound(PathsFilterOf(inputs)[name], d)
     /\ Fetched(i, d)
     /\ \A k \in 0..(d - 1) :
          DenyListed(PathsFilterOf(inputs)[name], FilesAt(i, k))
     /\ MatchAt(i, d) # {}
     /\ \A k \in 1..(d - 1) : MatchAt(i, k) = {})
      => SkipsAt(i, name, d)

\* C7, witness: a filter with a deny-list only skipped two commits behind
\* HEAD, both nearer commits changing only deny-listed files.
C7_Witness ==
  \E i \in RunIds :
    /\ PathsDecided(i)
    /\ inputs.paths_filter["F"].paths = {}
    /\ commits[apiRuns[i].head_sha].hasFiles
    /\ DenyListed(inputs.paths_filter["F"], FilesAt(i, 0))
    /\ DenyListed(inputs.paths_filter["F"], FilesAt(i, 1))
    /\ SkipsAt(i, "F", 2)

\* The commits at the distances below n are ignorable or irrelevant for f
\* and no successful run matches at the distances 1..n.
NothingResolves(i, f, n) ==
  /\ \A k \in 0..(n - 1) :
       /\ AncestorAt(apiRuns[i].head_sha, k) # NoHash
       /\ DenyListed(f, FilesAt(i, k)) \/ NoAllowMatch(f, FilesAt(i, k))
  /\ \A k \in 1..n : MatchAt(i, k) = {}

\* The commits at the distances below n exist and list their changed files.
FilesKnown(i, n) ==
  \A k \in 0..(n - 1) :
    /\ AncestorAt(apiRuns[i].head_sha, k) # NoHash
    /\ commits[AncestorAt(apiRuns[i].head_sha, k)].hasFiles

\* Filter `name` of run i resolved to don't-skip at distance n.
StopsAt(i, name, n) ==
  LET res == result[i].paths_result[name]
  IN res.should_skip = False /\ res.backtrack_count = n

\* C8: for a filter F with integer bound n, when the walk fetched the commits
\* at the distances 0..n, every commit at a distance below n is ignorable or
\* irrelevant for F and no successful run matches at the distances 1..n, F
\* resolves to don't-skip with backtrack distance n; and F is never resolved
\* at a distance greater than n.
C8_IntegerBound ==
  \A i \in RunIds, name \in FilterNames :
    LET f == PathsFilterOf(inputs)[name]
        res == result[i].paths_result[name]
    IN (PathsDecided(i) /\ f.backtracking.kind = "number")
         => /\ res.should_skip # Null
                 => res.backtrack_count <= f.backtracking.n
            /\ (Fetched(i, f.backtracking.n)
                /\ NothingResolves(i, f, f.backtracking.n))
                 => StopsAt(i, name, f.backtracking.n)

\* C8, witness: a filter with bound 1 stopped at distance 1 behind an
\* ignorable HEAD, with a further commit beyond.
C8_Witness ==
  \E i \in RunIds :
    /\ PathsDecided(i)
    /\ inputs.paths_filter["F"].backtracking = Limit(1)
    /\ NothingResolves(i, inputs.paths_filter["F"], 1)
    /\ AncestorAt(apiRuns[i].head_sha, 2) # NoHash
    /\ StopsAt(i, "F", 1)

\* C8 as stated, with no remote call failing and every commit listing its
\* changed files: whenever nothing resolves F within n steps, F resolves to
\* don't-skip at distance n.  (Violated when the history ends before
\* distance n.)
C8_AsStated ==
  \A i \in RunIds, name \in FilterNames :
    LET f == PathsFilterOf(inputs)[name]
    IN (/\ PathsDecided(i) /\ ~mayFail
        /\ f.backtracking.kind = "number"
        /\ FilesKnown(i, f.backtracking.n)
        /\ NothingResolves(i, f, f.backtracking.n))
         => StopsAt(i, name, f.backtracking.n)

\* The loop of run i takes the commit at its current distance and filter
\* `name`, still unresolved, has an allow-list none of the commit's changed
\* files matches, its limit is not reached there and no successful run
\* matches the commit.
IrrelevantCommit(i, name) ==
  LET f == PathsFilterOf(inputs)[name]
      k == bt[i].distanceToHEAD
  IN /\ pc[i] = "paths"
     /\ bt'[i].distanceToHEAD = k + 1
     /\ bt[i].pathsResult[name].should_skip = Null
     /\ NoAllowMatch(f, FilesAt(i, k))
     /\ ~LimitReached(f.backtracking, k)
     /\ k = 0 \/ MatchAt(i, k) = {}

\* The filter stays unresolved and the walk goes on to the first parent.
WalkContinues(i, name) ==
  /\ bt'[i].pathsResult[name] = NewFilterResult
  /\ bt'[i].iterSha = commits[bt[i].iterSha].parent
  /\ bt[i].distanceToHEAD < MaxBacktrace => pc'[i] = "paths"

\* Filter `name` of run i has an allow-list that no commit nearer than
\* distance d matches, the walk fetched the commit at distance d within the
\* filter's bound, and that commit is the nearest whose tree hash is that of
\* a strictly older completed successful run.
IrrelevantChain(i, name, d) ==
  /\ PathsDecided(i)
  /\ WithinBound(PathsFilterOf(inputs)[name], d)
  /\ Fetched(i, d)
  /\ \A k \in 0..(d - 1) :
       NoAllowMatch(PathsFilterOf(inputs)[name], FilesAt(i, k))
  /\ MatchAt(i, d) # {}
  /\ \A k \in 1..(d - 1) : MatchAt(i, k) = {}

\* C9: for a filter with a non-empty allow-list, a commit none of whose
\* changed files matches the allow-list leaves the filter unresolved and the
\* walk continues to the first parent; and when the walk so reaches, within
\* the filter's bound, the nearest ancestor whose tree hash is that of a
\* strictly older completed successful run, the filter's final verdict is
\* skip with cause such a run.
C9_AllowList ==
  /\ [][\A i \in RunIds, name \in FilterNames :
          IrrelevantCommit(i, name) => WalkContinues(i, name)]_vars
  /\ [](\A i \in RunIds, name \in FilterNames, d \in Distances :
          IrrelevantChain(i, name, d) => SkipsAt(i, name, d))

\* C9, witness: a filter with an allow-list only, behind a HEAD whose changed
\* files are listed and match none of it, skipped citing the run of the
\* parent commit.
C9_Witness ==
  \E i \in RunIds :
    /\ IrrelevantChain(i, "F", 1)
    /\ inputs.paths_filter["F"].paths_ignore = {}
    /\ commits[apiRuns[i].head_sha].hasFiles
    /\ SkipsAt(i, "F", 1)

(***************************************************************************)
(* Properties of the walk as a whole (SpecWalk).                           *)
(***************************************************************************)
Min(a, b) == IF a <= b THEN a ELSE b

\* The bound of filter f as a number of first-parent steps: unlimited is the
\* ceiling, disabled is one step (the limit is looked at at distance 1).
BoundOf(f) ==
  IF f.backtracking.kind = "number" THEN f.backtracking.n
  ELSE IF f.backtracking.b THEN MaxBacktrace
  ELSE 1

\* The largest bound among the filters, the global one included.
MaxBound ==
  CHOOSE m \in {BoundOf(PathsFilterOf(inputs)[n]) : n \in FilterNames} :
    \A n \in FilterNames : BoundOf(PathsFilterOf(inputs)[n]) <= m

\* The same among the filters that have a deny-list or an allow-list; a
\* filter with neither resolves at HEAD.
MaxConfiguredBound ==
  LET B == {BoundOf(PathsFilterOf(inputs)[n]) :
              n \in {x \in FilterNames :
                       \/ PathsFilterOf(inputs)[x].paths # {}
                       \/ PathsFilterOf(inputs)[x].paths_ignore # {}}}
  IN IF B = {} THEN 0 ELSE CHOOSE m \in B : \A b \in B : b <= m

\* The number of commits the walk of run i fetched so far.
FetchedCommits(i) ==
  IF pc[i] = "paths" THEN Len(bt[i].allChangedFiles)
  ELSE Len(result[i].changed_files)

\* One iteration of the loop of run i: it fetched one more commit and went
\* one step further, or it ended the walk.
Iteration(i) ==
  pc[i] = "paths"
    => \/ /\ bt'[i].distanceToHEAD = bt[i].distanceToHEAD + 1
          /\ Len(bt'[i].allChangedFiles) = Len(bt[i].allChangedFiles) + 1
       \/ pc'[i] = "exit"

\* C12: the walk ends: each iteration goes one step further or ends the walk,
\* no iteration starts beyond distance min(50, largest bound of a configured
\* filter), and so the walk fetches at most min(50, largest bound) + 1
\* commits (those at the distances 0..min(50, largest bound)), whatever the
\* history, folded ones that never end included.
C12_WalkBounded ==
  /\ [][\A i \in RunIds : Iteration(i)]_vars
  /\ [](\A i \in RunIds :
          /\ pc[i] = "paths"
               => bt[i].distanceToHEAD <= Min(MaxBacktrace, MaxConfiguredBound)
          /\ FetchedCommits(i) <= Min(MaxBacktrace, MaxConfiguredBound) + 1)

\* C12, witness: a walk over a history that never ends, all of it ignorable
\* for an unlimited filter, ended at the ceiling with 51 commits fetched.
C12_Witness ==
  \E i \in RunIds :
    /\ pc[i] = "exit"
    /\ result[i].reason = "paths"
    /\ Len(result[i].changed_files) = MaxBacktrace + 1
    /\ hasUnknownFilters(result[i].paths_result)

\* C12 as stated: the walk fetches at most min(50, largest bound) commits.
C12_AsStated ==
  \A i \in RunIds : FetchedCommits(i) <= Min(MaxBacktrace, MaxBound)

\* The walk of run i stopped without a verdict for every filter: a fetch
\* failed, no parent remained, or the ceiling was hit.
WalkStopped(i) ==
  \/ mayFail
  \/ AncestorAt(apiRuns[i].head_sha, Len(result[i].changed_files)) = NoHash
  \/ Len(result[i].changed_files) = MaxBacktrace + 1

\* C13: when the walk has ended, a filter that was still unresolved stays
\* unknown (should_skip = null, backtrack distance 0, no cause), which only
\* happens when the walk stopped (failed fetch, no parent, ceiling); every
\* resolved filter was resolved at a commit that was fetched, a skip citing
\* a successful run that matches that commit; and the verdict of the
\* invocation is skip only when the global filter resolved to skip.
C13_StoppedWalk ==
  \A i \in RunIds :
    PathsDecided(i)
      => /\ \A name \in FilterNames :
              LET res == result[i].paths_result[name]
              IN /\ res.should_skip = Null => res = NewFilterResult
                 /\ res.should_skip # Null
                      => res.backtrack_count < Len(result[i].changed_files)
                 /\ res.should_skip = True
                      => res.skipped_by.id \in MatchAt(i, res.backtrack_count)
         /\ hasUnknownFilters(result[i].paths_result) => WalkStopped(i)
         /\ result[i].should_skip
              <=> result[i].paths_result["global"].should_skip = True

\* C13, witness: no remote call failed, the history ended behind an ignorable
\* commit and the invocation emitted don't-skip with both filters unknown.
C13_Witness ==
  \E i \in RunIds :
    /\ Emitted(i) /\ ~mayFail
    /\ outputs[i].reason = "paths" /\ ~outputs[i].should_skip
    /\ \A name \in FilterNames :
         result[i].paths_result[name] = NewFilterResult

\* C13 as stated: after the walk no filter has verdict unknown.
C13_AsStated ==
  \A i \in RunIds :
    PathsDecided(i) => ~hasUnknownFilters(result[i].paths_result)

\* C14 as stated: the walk never passes through a commit without a list of
\* changed files towards a skip: when a filter resolved to skip at distance
\* d, every commit nearer than d lists its changed files.
C14_AsStated ==
  \A i \in RunIds :
    PathsDecided(i)
      => \A name \in FilterNames :
           LET res == result[i].paths_result[name]
           IN res.should_skip = True
                => \A k \in 0..(res.backtrack_count - 1) :
                     commits[AncestorAt(apiRuns[i].head_sha, k)].hasFiles

(***************************************************************************)
(* Properties of the orchestration (SpecOrder).                            *)
(***************************************************************************)
\* The runs the invocation of run i listed as not completed and that satisfy
\* the rule of the concurrency policy.
ListedCandidates(i) ==
  {r \in RunIds \ {i} :
     \E k \in 1..Len(context[i].allRuns) :
       LET run == context[i].allRuns[k]
       IN /\ run.id = r
          /\ run.status # "completed"
          /\ CASE inputs.concurrent_skipping = "always" -> TRUE
               [] inputs.concurrent_skipping = "outdated_runs" ->
                    run.createdAt > apiRuns[i].created_at
               [] inputs.concurrent_skipping = "same_content" ->
                    run.treeHash = apiRuns[i].tree_id
               [] inputs.concurrent_skipping = "same_content_newer" ->
                    /\ run.treeHash = apiRuns[i].tree_id
                    /\ run.runNumber < apiRuns[i].run_number
               [] OTHER -> FALSE}

\* The reason of the first component, in the fixed order, that is conclusive
\* for the invocation of run i.
FirstConclusive(i) ==
  IF apiRuns[i].event \in inputs.do_not_skip THEN "do_not_skip"
  ELSE IF inputs.skip_after_successful_duplicates /\ SuccessfulOlder(i) # {}
    THEN "skip_after_successful_duplicate"
  ELSE IF ListedCandidates(i) # {} THEN "concurrent_skipping"
  ELSE IF inputs.paths # {} \/ inputs.paths_ignore # {}
          \/ DOMAIN inputs.paths_filter # {}
    THEN "paths"
  ELSE "no_transferable_run"

\* Nothing of the invocation of run i changes in the step.
Halted(i) ==
  /\ result'[i] = result[i]
  /\ bt'[i] = bt[i]
  /\ cancelReqs'[i] = cancelReqs[i]
  /\ outputs'[i] = outputs[i] \/ (~outputs[i].set /\ pc[i] = "exit")

\* C15: the verdict an invocation emits is the one of the first conclusive
\* component in the order do-not-skip, duplicate detector (if enabled),
\* concurrency resolver (if the policy is not never), path backtracker (if a
\* filter is configured), default; cancel requests are sent only before the
\* first of these checks and only with cancel_others; commits are fetched
\* only when the path backtracker gives the verdict; a verdict, once decided,
\* is emitted once and nothing of the invocation runs after it.
C15_FixedOrder ==
  /\ [](\A i \in RunIds :
          /\ result[i] # NoResult
               => /\ result[i].reason = FirstConclusive(i)
                  /\ result[i].reason # "paths" => bt[i] = NoBacktrace
          /\ pc[i] = "done" => outputs[i].set
          /\ outputs[i].set
               => /\ outputs[i].reason = result[i].reason
                  /\ outputs[i].should_skip = result[i].should_skip
          /\ ~inputs.cancel_others => cancelReqs[i] = <<>>)
  /\ [][\A i \in RunIds :
          /\ cancelReqs'[i] # cancelReqs[i]
               => pc[i] = "cancel" /\ result[i] = NoResult
                  /\ bt[i] = NoBacktrace
          /\ (result[i] # NoResult
              \/ pc[i] \in {"failed", "crashed", "crashed_commit",
                            "crashed_list"})
               => Halted(i)]_vars

\* C15, witness: with every component enabled, an invocation that sent a
\* cancel request emitted the verdict of the duplicate detector although the
\* concurrency resolver and the path backtracker would have had one.
C15_Witness ==
  \E i \in RunIds :
    /\ Emitted(i)
    /\ cancelReqs[i] # <<>>
    /\ outputs[i].reason = "skip_after_successful_duplicate"
    /\ ListedCandidates(i) # {}
    /\ inputs.paths_ignore # {}
    /\ bt[i] = NoBacktrace

(***************************************************************************)
(* Properties of repeated invocations (SpecRerun).                         *)
(***************************************************************************)
\* The invocation of run i emitted its verdict and an earlier invocation of
\* the same run wrote the ledger blob before the latest one.
EmittedAgain(i) ==
  /\ Emitted(i)
  /\ Len(artifacts) >= 2
  /\ i \in DOMAIN artifacts[1].data
  /\ i \in DOMAIN artifacts[2].data

\* C16: with no remote call failing, an invocation started again for the
\* same run with the same configuration against the same listing and commits
\* and the ledger as the earlier invocation left it emits the verdict the
\* earlier one recorded: the same should_skip, reason, skipped_by and
\* per-filter results.
C16_Idempotent ==
  \A i \in RunIds :
    EmittedAgain(i)
      => /\ ArtifactResultOf(OutputsOf(result[i])) = artifacts[2].data[i].r
         /\ outputs[i].should_skip = artifacts[2].data[i].r.should_skip
         /\ outputs[i].reason = artifacts[2].data[i].r.reason
         /\ outputs[i].skipped_by.id = artifacts[2].data[i].r.skipped_by

\* C16, witness: a pull_request run invoked again skipped, as before, for a
\* pull_request run whose tree hash both invocations took from the ledger.
C16_Witness ==
  \E i \in RunIds :
    /\ EmittedAgain(i)
    /\ apiRuns[i].event = "pull_request"
    /\ outputs[i].reason = "skip_after_successful_duplicate"
    /\ outputs[i].skipped_by.event = "pull_request"

\* The runs a verdict of the invocation of run i may cite, given its reason.
CausesOf(i, reason) ==
  CASE reason = "skip_after_successful_duplicate" -> SuccessfulOlder(i)
    [] reason = "concurrent_skipping" -> ListedCandidates(i)
    [] reason = "paths" -> RunIds \cup {NoRunId}
    [] OTHER -> {NoRunId}

\* The step in which the invocation of run i sends its cancel requests.
CancelStep(i) == pc[i] = "cancel" /\ pc'[i] = "run"

\* C17: the cancel step of an invocation sends exactly one request for each
\* cancel candidate, whichever of the requests fail; a request changes
\* nothing but the status of its run, and only when it succeeds; the listing
\* the invocation decides on is untouched, and the verdict (should_skip,
\* reason, skipped_by) is the one that listing determines, whether the
\* requests succeeded or failed.
C17_CancelOnce ==
  /\ [][\A i \in RunIds :
          CancelStep(i)
            => /\ Requested(i)' = OutdatedRuns(i)
               /\ Len(cancelReqs'[i]) = Cardinality(OutdatedRuns(i))
               /\ context'[i] = context[i]
               /\ \A r \in RunIds :
                    apiRuns'[r] # apiRuns[r]
                      => r \in OutdatedRuns(i)
                         /\ apiRuns'[r] = Cancelled(apiRuns[r])]_vars
  /\ [](\A i \in RunIds :
          result[i] # NoResult
            => /\ result[i].reason = FirstConclusive(i)
               /\ result[i].skipped_by.id \in CausesOf(i, result[i].reason)
               /\ result[i].reason \in {"skip_after_successful_duplicate",
                                        "concurrent_skipping"}
                    => result[i].should_skip
               /\ result[i].reason \in {"do_not_skip", "no_transferable_run"}
                    => ~result[i].should_skip)

\* C17, witness: an invocation emitted its verdict after two cancel requests,
\* the first of which failed (its run is still in progress) while the second
\* went through.
C17_Witness ==
  \E i \in RunIds :
    /\ Emitted(i)
    /\ Len(cancelReqs[i]) = 2
    /\ apiRuns[cancelReqs[i][1]].status = "in_progress"
    /\ CancelledRun(cancelReqs[i][2])

(***************************************************************************)
(* Properties of SpecIdentity: a current run without essential identity.   *)
(***************************************************************************)
\* The invocation of run i did nothing observable: no cancel request, no
\* ledger blob, no verdict, no output.
NothingDone(i) ==
  /\ cancelReqs[i] = <<>>
  /\ artifacts = <<>>
  /\ context[i] = NoContext
  /\ result[i] = NoResult
  /\ ~outputs[i].set

\* An invocation whose run has no tree hash ends in exitFail (or in the
\* rejection of getWorkflowRun), having done nothing.
TreeHashFatal ==
  \A i \in RunIds :
    pc[i] # "off" /\ apiRuns[i].tree_id = NoHash
      => NothingDone(i) /\ pc[i] \in {"idle", "failed", "crashed"}

TreeHashFatal_Witness ==
  \E i \in RunIds : apiRuns[i].tree_id = NoHash /\ pc[i] = "failed"

Malformed ==
  \/ NotAString \in inputs.paths
  \/ NotAString \in inputs.paths_ignore
  \/ \E n \in DOMAIN inputs.paths_filter :
       \/ NotAString \in inputs.paths_filter[n].paths
       \/ NotAString \in inputs.paths_filter[n].paths_ignore
       \/ inputs.paths_filter[n].backtracking.kind = "string"
  \/ \E e \in inputs.do_not_skip :
       e \notin {"pull_request", "push", "workflow_dispatch", "schedule",
                 "release"}
  \/ inputs.concurrent_skipping \notin
       {"always", "same_content", "same_content_newer", "outdated_runs",
        "never"}

\* C19: with a malformed configuration the invocation ends in exitFail
\* before any remote call: it never reaches the state of a rejected request,
\* no run is cancelled (no request is sent, no run changes), no ledger blob
\* is written, no listing is read and no output is set.
C19_MalformedAborts ==
  /\ [](\A i \in RunIds :
          Malformed /\ pc[i] # "off"
            => /\ pc[i] \in {"idle", "failed"}
               /\ cancelReqs[i] = <<>>
               /\ artifacts = <<>>
               /\ context[i] = NoContext
               /\ result[i] = NoResult
               /\ ~outputs[i].set)
  /\ [][Malformed => apiRuns' = apiRuns]_vars

\* C19, witness: an invocation ended in exitFail over an unknown policy value
\* although a successful duplicate and a cancel candidate were listed.
C19_Witness ==
  \E i, r, s \in RunIds :
    /\ pc[i] = "failed"
    /\ inputs.concurrent_skipping = "sometimes"
    /\ inputs.cancel_others
    /\ r < i /\ s < i
    /\ apiRuns[r].tree_id = apiRuns[i].tree_id
    /\ apiRuns[r].conclusion = "success"
    /\ apiRuns[s].tree_id # apiRuns[i].tree_id
    /\ apiRuns[s].status = "in_progress"
    /\ apiRuns[s].head_branch = apiRuns[i].head_branch

(***************************************************************************)
(* Properties of SpecDecide: requests that fail.                           *)
(***************************************************************************)
\* C20, as stated: when listWorkflowRuns, or getCommit for the merge commit
\* of a pull_request run, fails, the invocation goes on to a verdict and
\* never ends in a crash.
C20_AsStated ==
  \A i \in RunIds : pc[i] \notin {"crashed_commit", "crashed_list"}

(***************************************************************************)
(* Properties of SpecDecide: ledger reads and writes that fail.            *)
(***************************************************************************)
\* The invocation of run i is past main() and before exitSuccess.
Deciding(i) == pc[i] \in {"run", "paths", "exit"}

\* The ledger read of the invocation of run i failed: the latest blob holds
\* an entry of a listed run that the invocation does not hold.
ReadFailed(i) ==
  /\ Deciding(i)
  /\ \E r \in Ids(context[i].allRuns) \cap DOMAIN LatestArtifactData :
       r \notin DOMAIN context[i].artifactRuns

\* The context of the invocation of run i had its ledger read gone through.
ContextWithLedger(i) ==
  [context[i] EXCEPT
     !.artifactRuns = ArtifactRunsOf(apiRuns[i], context[i].allRuns,
                                     LatestArtifactData),
     !.artifactIds = ArtifactIdsOf(artifacts)]

\* The path walk from the locals b to its end, every commit fetched.
RECURSIVE WalkFrom(_, _, _)
WalkFrom(inp, c, b) ==
  LET commit == IF b.iterSha = NoHash THEN NoCommit ELSE commits[b.iterSha]
      nb == LoopBody(inp, c, b, commit)
  IN IF commit = NoCommit THEN PathsVerdict(b)
     ELSE IF b.distanceToHEAD >= MaxBacktrace
             \/ ~hasUnknownFilters(nb.pathsResult)
       THEN PathsVerdict(nb)
     ELSE WalkFrom(inp, c, nb)

\* The verdict of run() on the context c when no request fails.
VerdictOn(inp, c) ==
  IF DecideRun(inp, c) # NoResult THEN DecideRun(inp, c)
  ELSE WalkFrom(inp, c,
                [iterSha |-> c.currentRun.commitHash, distanceToHEAD |-> 0,
                 pathsResult |-> [n \in DOMAIN PathsFilterOf(inp) |->
                                    NewFilterResult],
                 allChangedFiles |-> <<>>])

\* C21: a failing ledger read leaves the invocation with an empty ledger
\* (its own entry only) and the invocation goes on; from exitSuccess the
\* invocation always ends with exit code 0 and every output set to its
\* verdict, the upload having failed or not; and a verdict of skip reached
\* after a failed read is also the verdict with the ledger read, so a failed
\* read never turns don't-skip into skip.
C21_LedgerNonFatal ==
  /\ [](\A i \in RunIds :
          ReadFailed(i)
            => /\ DOMAIN context[i].artifactRuns = {i}
               /\ (pc[i] = "exit" /\ result[i].should_skip)
                    => VerdictOn(inputs, ContextWithLedger(i)).should_skip)
  /\ [][\A i \in RunIds :
          pc[i] = "exit" /\ pc'[i] # "exit"
            => /\ pc'[i] = "done"
               /\ outputs'[i] = OutputsOf(result[i])
               /\ artifacts' = artifacts
                  \/ /\ Len(artifacts') = Len(artifacts) + 1 
                     /\ i \in DOMAIN artifacts'[1].data]_vars

\* C21, witness: an invocation whose ledger read failed, although the ledger
\* held the tree hash that makes an older run a successful duplicate, and
\* whose upload failed too, ended with its outputs set to don't-skip.
C21_Witness ==
  \E i \in RunIds :
    /\ Emitted(i)
    /\ ~outputs[i].should_skip
    /\ artifacts # <<>>
    /\ i \notin DOMAIN artifacts[1].data
    /\ DOMAIN context[i].artifactRuns = {i}
    /\ VerdictOn(inputs, ContextWithLedger(i)).reason
         = "skip_after_successful_duplicate"

(***************************************************************************)
(* Properties of SpecShared: the ledger under interleaved invocations.     *)
(***************************************************************************)
\* The step in which the invocation of run i reads the listing and the
\* ledger.
ReadStep(i) == pc[i] = "idle" /\ pc'[i] \in {"cancel", "run"}

\* The invocation of the pull_request run r ended after it wrote a blob with
\* the tree hash of its merge commit.
Persisted(r) ==
  /\ apiRuns[r].event = "pull_request"
  /\ pc[r] = "done"
  /\ context[r].artifactRuns[r].t = commits[apiRuns[r].context_sha].tree

\* C22, as stated: an invocation that starts after the invocation of a
\* pull_request run ended with its ledger write, and that lists that run,
\* holds the run's resolved tree hash from the ledger it reads, whatever
\* other invocations read and wrote in between.
C22_AsStated ==
  [][\A i, r \in RunIds :
       (ReadStep(i) /\ r # i /\ Persisted(r))
         => /\ r \in DOMAIN context'[i].artifactRuns
            /\ context'[i].artifactRuns[r].t =
                 commits[apiRuns[r].context_sha].tree]_vars

\* The step in which the invocation of run i goes through exitSuccess.
ExitStep(i) == pc[i] = "exit" /\ pc'[i] = "done"

\* The ledger entry e records the verdict v of run i: should_skip, reason,
\* the id of the cause, each filter's result and, for a pull_request run,
\* the tree hash of its merge commit.
Records(e, i, v) ==
  /\ e.r.should_skip = v.should_skip
  /\ e.r.reason = v.reason
  /\ e.r.skipped_by = v.skipped_by.id
  /\ DOMAIN e.r.paths_result = DOMAIN v.paths_result
  /\ \A n \in DOMAIN v.paths_result :
       /\ e.r.paths_result[n].should_skip = v.paths_result[n].should_skip
       /\ e.r.paths_result[n].backtrack_count
            = v.paths_result[n].backtrack_count
       /\ e.r.paths_result[n].skipped_by = v.paths_result[n].skipped_by.id
  /\ e.t = IF apiRuns[i].event = "pull_request"
           THEN commits[apiRuns[i].context_sha].tree ELSE NoHash

\* C23: the outputs of an invocation are set in exitSuccess only, in the step
\* that also uploads the ledger blob; the blob uploaded there is the newest
\* one and holds, under the id of the current run, the verdict the outputs
\* carry and the tree hash of the merge commit of a pull_request run; the
\* upload is missing only when its request fails.
C23_LedgerEntryWritten ==
  [][\A i \in RunIds :
       /\ outputs'[i] # outputs[i] => ExitStep(i)
       /\ ExitStep(i)
            => /\ outputs'[i] = OutputsOf(result[i])
               /\ ~mayFail => artifacts' # artifacts
               /\ artifacts' # artifacts
                    => /\ Len(artifacts') = Len(artifacts) + 1
                       /\ i \in DOMAIN artifacts'[1].data
                       /\ Records(artifacts'[1].data[i], i, result[i])]_vars

\* C23, witness: the invocation of a pull_request run emitted a skip for a
\* successful run found by the path walk, and the newest blob holds its
\* entry with that run's id and the tree hash of the merge commit.
C23_Witness ==
  \E i \in RunIds :
    /\ Emitted(i)
    /\ apiRuns[i].event = "pull_request"
    /\ outputs[i].reason = "paths"
    /\ outputs[i].should_skip
    /\ artifacts # <<>>
    /\ i \in DOMAIN artifacts[1].data
    /\ artifacts[1].data[i].r.skipped_by = outputs[i].skipped_by.id
    /\ artifacts[1].data[i].r.paths_result["global"].skipped_by # NoRunId
    /\ artifacts[1].data[i].t # NoHash

(***************************************************************************)
(* Properties of SpecRetain: which blobs an invocation deletes.            *)
(***************************************************************************)
BlobIds(arts) == {arts[k].id : k \in 1..Len(arts)}

\* The blobs the invocation of run i listed at the 0-based positions >= n.
ListedFrom(i, n) ==
  {context[i].artifactIds[k] : k \in (n + 1)..Len(context[i].artifactIds)}

\* C24: the exitSuccess step of an invocation removes only blobs at the
\* 0-based positions >= 4 of the listing the invocation read, never the
\* first blob of that listing (the one it read from) and never the blob it
\* uploads, and it removes nothing when its upload fails; and at any time
\* the blob uploaded last exists and is the first of the listing.
C24_Retention ==
  /\ [][\A i \in RunIds :
          ExitStep(i)
            => LET removed == BlobIds(artifacts) \ BlobIds(artifacts')
                   added == BlobIds(artifacts') \ BlobIds(artifacts)
               IN /\ removed \subseteq ListedFrom(i, 4)
                  /\ removed \cap (BlobIds(artifacts) \ ListedFrom(i, 1)) = {}
                  /\ added \subseteq {nextArtifactId}
                  /\ added = {} => removed = {}]_vars
  /\ [](nextArtifactId > 1
          => artifacts # <<>> /\ artifacts[1].id = nextArtifactId - 1)

\* C24, witness: an invocation that listed six blobs ended after another
\* invocation uploaded in between; the two oldest blobs it listed are gone,
\* the four newest it listed and both uploads exist.
C24_Witness ==
  \E i \in RunIds :
    /\ Emitted(i)
    /\ Len(context[i].artifactIds) = 6
    /\ nextArtifactId = 9
    /\ BlobIds(artifacts) = (1..8) \ ListedFrom(i, 4)
    /\ ListedFrom(i, 4) = {1, 2}

(***************************************************************************)
(* Properties of SpecDecide: the outputs.                                  *)
(***************************************************************************)
\* C25: in the outputs of every invocation the reason is one of the five
\* reason codes; should_skip is true exactly when skipped_by is a run (a
\* listed run other than the current one) and skipped_by is empty exactly
\* when should_skip is false; do_not_skip and no_transferable_run come with
\* should_skip false, skip_after_successful_duplicate and
\* concurrent_skipping with should_skip true.
C25_OutputConsistency ==
  \A i \in RunIds :
    outputs[i].set
      => /\ outputs[i].reason \in
              {"do_not_skip", "skip_after_successful_duplicate",
               "concurrent_skipping", "paths", "no_transferable_run"}
         /\ outputs[i].should_skip <=> outputs[i].skipped_by # NoRun
         /\ outputs[i].skipped_by # NoRun
              => /\ outputs[i].skipped_by.id \in RunIds \ {i}
                 /\ apiRuns[outputs[i].skipped_by.id].status # "none"
         /\ outputs[i].reason \in {"do_not_skip", "no_transferable_run"}
              => ~outputs[i].should_skip
         /\ outputs[i].reason \in {"skip_after_successful_duplicate",
                                   "concurrent_skipping"}
              => outputs[i].should_skip

\* C25, witness: the path walk of an invocation ended with the global filter
\* resolved to don't-skip, and the outputs carry reason paths, should_skip
\* false and no skipped_by, although an older successful run was listed.
C25_Witness ==
  \E i, r \in RunIds :
    /\ Emitted(i)
    /\ outputs[i].reason = "paths"
    /\ ~outputs[i].should_skip
    /\ outputs[i].skipped_by = NoRun
    /\ outputs[i].paths_result["global"].should_skip = False
    /\ OlderCompleted(i, r, "success")

(***************************************************************************)
(* Properties of SpecPaths: the outputs paths_result and changed_files.    *)
(***************************************************************************)
\* C26: outputs with a reason other than paths carry an empty paths_result
\* and an empty changed_files; outputs with reason paths carry one
\* paths_result entry for each configured named filter and one for global,
\* and one changed_files element for each commit the walk went through, the
\* element at the 0-based index d being the changed files of the commit d
\* first-parent steps from the current commit.
C26_PathsOutputs ==
  \A i \in RunIds :
    outputs[i].set
      => IF outputs[i].reason # "paths"
         THEN /\ outputs[i].paths_result = NoPathsResult
              /\ outputs[i].changed_files = <<>>
              /\ bt[i] = NoBacktrace
         ELSE /\ DOMAIN outputs[i].paths_result
                   = DOMAIN inputs.paths_filter \cup {"global"}
              /\ Len(outputs[i].changed_files) = bt[i].distanceToHEAD
              /\ \A k \in 1..Len(outputs[i].changed_files) :
                   /\ AncestorAt(apiRuns[i].head_sha, k - 1) # NoHash
                   /\ outputs[i].changed_files[k] = FilesAt(i, k - 1)

\* C26, witness: a walk over three commits, the middle one without changed
\* files, ended in outputs with reason paths, three changed_files elements
\* and the entries F and global.
C26_Witness ==
  \E i \in RunIds :
    /\ Emitted(i)
    /\ outputs[i].reason = "paths"
    /\ Len(outputs[i].changed_files) = 3
    /\ outputs[i].changed_files[1] # {}
    /\ outputs[i].changed_files[2] = {}
    /\ outputs[i].changed_files[3] # {}
    /\ DOMAIN outputs[i].paths_result = {"F", "global"}

\* An invocation ended before the path checks although filters were
\* configured.
EndedBeforePaths ==
  \E i \in RunIds :
    /\ Emitted(i)
    /\ outputs[i].reason = "skip_after_successful_duplicate"
    /\ DOMAIN inputs.paths_filter # {}

(***************************************************************************)
(* Properties of SpecPaths: a filter with backtracking: false.             *)
(***************************************************************************)
\* The named filters configured with backtracking: false.
DisabledFilters ==
  {n \in DOMAIN inputs.paths_filter :
     /\ inputs.paths_filter[n].backtracking.kind = "boolean"
     /\ ~inputs.paths_filter[n].backtracking.b}

NeverSkipped(i) == apiRuns[i].event \in inputs.do_not_skip

\* C28: when the trigger of the current run is in the do_not_skip set, the
\* canceller still runs first when it is enabled (one request for each
\* outdated run, as for any trigger), and the short-circuit comes right after
\* it: no commit is fetched, the path walk never starts, and the only
\* verdict is don't-skip with reason do_not_skip and no cause, whatever
\* duplicates and concurrent runs are listed.
C28_ShortCircuit ==
  /\ [](\A i \in RunIds :
          NeverSkipped(i)
            => /\ bt[i] = NoBacktrace
               /\ pc[i] # "paths"
               /\ result[i] \in {NoResult, Verdict(FALSE, "do_not_skip", NoRun)}
               /\ ~inputs.cancel_others => cancelReqs[i] = <<>>)
  /\ [][\A i \in RunIds :
          (NeverSkipped(i) /\ CancelStep(i))
            => Requested(i)' = OutdatedRuns(i)]_vars

\* C28, witness: an invocation whose trigger is in the do_not_skip set sent a
\* cancel request and then emitted do_not_skip, with path filters
\* configured, a successful duplicate and a concurrent run listed.
C28_Witness ==
  \E i \in RunIds :
    /\ Emitted(i)
    /\ outputs[i].reason = "do_not_skip"
    /\ cancelReqs[i] # <<>>
    /\ inputs.paths_ignore # {}
    /\ inputs.skip_after_successful_duplicates
    /\ inputs.concurrent_skipping = "always"
    /\ SuccessfulOlder(i) # {}
    /\ ListedCandidates(i) # {}

\* C28, as stated: when the trigger of the current run is in the do_not_skip
\* set, no cancel request is issued and no commit is fetched.
C28_AsStated ==
  \A i \in RunIds :
    NeverSkipped(i) => cancelReqs[i] = <<>> /\ bt[i] = NoBacktrace

(***************************************************************************)
(* Properties of SpecCancel: the lists of runs of an invocation.           *)
(***************************************************************************)
\* Run r is listed and has no tree hash.
Headless(r) == apiRuns[r].status # "none" /\ apiRuns[r].tree_id = NoHash

\* C29: in the context of an invocation the list of all other runs holds,
\* once each, exactly the listed runs other than the current one that have
\* a tree hash, and the list of older runs exactly those of them created
\* strictly before the current run; a listed run without a tree hash does
\* not make the invocation fail, is never sent a cancel request and is
\* never the cause of a skip.
C29_RunRegistry ==
  \A i \in RunIds :
    /\ pc[i] # "failed"
    /\ context[i] # NoContext
         => /\ Ids(context[i].allRuns)
                 = {r \in RunIds \ {i} : /\ apiRuns[r].status # "none"
                                         /\ apiRuns[r].tree_id # NoHash}
            /\ Len(context[i].allRuns) = Cardinality(Ids(context[i].allRuns))
            /\ Ids(context[i].olderRuns)
                 = {r \in Ids(context[i].allRuns) :
                      apiRuns[r].created_at < apiRuns[i].created_at}
            /\ Len(context[i].olderRuns)
                 = Cardinality(Ids(context[i].olderRuns))
            /\ \A r \in RunIds :
                 Headless(r) => /\ r \notin Requested(i)
                                /\ result[i].skipped_by.id # r
                                /\ outputs[i].skipped_by.id # r

\* C29, witness: an invocation with cancel_others and policy always emitted
\* don't-skip without a cancel request while the only other listed run,
\* older, in progress, of the same branch and repository, had no tree hash.
C29_Witness ==
  \E i, r \in RunIds :
    /\ Emitted(i)
    /\ inputs.concurrent_skipping = "always"
    /\ ~(apiRuns[i].event \in inputs.do_not_skip)
    /\ Headless(r)
    /\ apiRuns[r].status = "in_progress"
    /\ apiRuns[r].created_at < apiRuns[i].created_at
    /\ apiRuns[r].head_branch = apiRuns[i].head_branch
    /\ apiRuns[r].repo = apiRuns[i].repo
    /\ cancelReqs[i] = <<>>
    /\ ~outputs[i].should_skip

(***************************************************************************)
(* Properties of SpecHead: no skip at the starting commit.                 *)
(***************************************************************************)
\* The filter result res of run i is a skip found at a proper ancestor: at a
\* distance >= 1, at a commit other than the starting one, citing a strictly
\* older successful run with the tree hash of that commit.
SkipAtAncestor(i, res) ==
  /\ res.backtrack_count >= 1
  /\ AncestorAt(apiRuns[i].head_sha, res.backtrack_count)
       \notin {NoHash, apiRuns[i].head_sha}
  /\ res.skipped_by.id \in MatchAt(i, res.backtrack_count)

\* C30: a filter resolves to skip only at a distance >= 1, during the walk
\* and in the verdict: every filter that resolved to skip, and every outputs
\* with reason paths and should_skip true, cites a strictly older successful
\* run with the tree hash of a proper ancestor of the starting commit, even
\* when a successful run has the tree hash of the starting commit itself.
C30_NoSkipAtHead ==
  \A i \in RunIds :
    /\ \A name \in DOMAIN bt[i].pathsResult :
         bt[i].pathsResult[name].should_skip = True
           => SkipAtAncestor(i, bt[i].pathsResult[name])
    /\ \A name \in DOMAIN result[i].paths_result :
         result[i].paths_result[name].should_skip = True
           => SkipAtAncestor(i, result[i].paths_result[name])
    /\ (outputs[i].reason = "paths" /\ outputs[i].should_skip)
         => /\ outputs[i].paths_result["global"].skipped_by
                 = outputs[i].skipped_by
            /\ SkipAtAncestor(i, outputs[i].paths_result["global"])

\* C30, witness: a strictly older successful run has the tree hash of the
\* starting commit, and the walk still resolved filter F to don't-skip at
\* distance 0, the starting commit not being ignorable.
C30_Witness ==
  \E i \in RunIds :
    /\ PathsDecided(i)
    /\ MatchAt(i, 0) # {}
    /\ StopsAt(i, "F", 0)

NoPlainLists == inputs.paths = {} /\ inputs.paths_ignore = {}

\* C32: a verdict with reason paths always holds the entry global, with the
\* plain lists empty or not; its should_skip is true exactly when the global
\* entry resolved to skip (unresolved counts as don't-skip) and its
\* skipped_by is the global entry's, whatever the named filters resolved to;
\* with both plain lists empty the global entry is don't-skip at distance 0
\* or unresolved, and the verdict is don't-skip.
C32_GlobalVerdict ==
  \A i \in RunIds :
    PathsDecided(i)
      => /\ "global" \in DOMAIN result[i].paths_result
         /\ result[i].should_skip
              <=> result[i].paths_result["global"].should_skip = True
         /\ result[i].skipped_by = result[i].paths_result["global"].skipped_by
         /\ NoPlainLists
              => /\ ~result[i].should_skip
                 /\ result[i].paths_result["global"].backtrack_count = 0
                 /\ result[i].paths_result["global"].should_skip # True

\* C32, witness: with both plain lists empty the named filter F resolved to
\* skip and the verdict is don't-skip, with the global entry resolved to
\* don't-skip.
C32_Witness ==
  \E i \in RunIds :
    /\ PathsDecided(i)
    /\ NoPlainLists
    /\ result[i].paths_result["F"].should_skip = True
    /\ result[i].paths_result["global"].should_skip = False
    /\ ~result[i].should_skip

\* C32, as stated: the global entry is in the result exactly when the plain
\* allow-list or deny-list is non-empty.
C32_AsStated ==
  \A i \in RunIds :
    PathsDecided(i)
      => ("global" \in DOMAIN result[i].paths_result <=> ~NoPlainLists)

(***************************************************************************)
(* Properties of SpecOrder: which runs of the listing influence a verdict. *)
(***************************************************************************)
\* Run r was created strictly before run i.
CreatedBefore(r, i) ==
  r \in RunIds /\ apiRuns[r].created_at < apiRuns[i].created_at

\* The context c without the runs that are not strictly older than the
\* current run.
WithoutNewer(c) == [c EXCEPT !.allRuns = c.olderRuns]

\* should_skip, reason and cause of a verdict.
Outcome(v) == <<v.should_skip, v.reason, v.skipped_by>>

RECURSIVE AloneFrom(_, _, _, _)
AloneFrom(i, name, d, res) ==
  LET a == AncestorAt(apiRuns[i].head_sha, d)
  IN IF a = NoHash \/ d >= Len(result[i].changed_files) THEN res
     ELSE LET successfulRun ==
                IF d > 0
                THEN findSuccessfulDuplicateRun(context[i], commits[a].tree)
                ELSE NoRun
              nr == FilterStep(PathsFilterOf(inputs)[name], res,
                               ChangedFilesOf(commits[a]), successfulRun, d)
          IN IF nr.should_skip # Null \/ d >= MaxBacktrace THEN nr
             ELSE AloneFrom(i, name, d + 1, nr)

\* C34: the result (verdict, backtrack distance, cause, matched files) of
\* every filter of a walk is the result of a walk over the same commits with
\* that filter alone, whatever the other filters resolve to and whenever they
\* do; and no step changes the result of a filter that is resolved.
C34_Multiplexing ==
  /\ [](\A i \in RunIds :
          PathsDecided(i)
            => \A name \in FilterNames :
                 result[i].paths_result[name]
                   = AloneFrom(i, name, 0, NewFilterResult))
  /\ [][\A i \in RunIds :
          (pc[i] = "paths" /\ bt[i].distanceToHEAD > 0)
            => \A name \in FilterNames :
                 bt[i].pathsResult[name].should_skip # Null
                   => bt'[i].pathsResult[name] = bt[i].pathsResult[name]]_vars

\* C34, witness: the filter F resolved to don't-skip at the starting commit,
\* the walk went on for the global filter, which resolved to skip two commits
\* further, at a commit whose successful run F would have skipped for.
C34_Witness ==
  \E i \in RunIds :
    /\ PathsDecided(i)
    /\ result[i].paths_result["F"].should_skip = False
    /\ result[i].paths_result["F"].backtrack_count = 0
    /\ result[i].paths_result["global"].should_skip = True
    /\ result[i].paths_result["global"].backtrack_count = 2

(***************************************************************************)
(* Properties of the interleaved invocations (Spec): outdated_runs.        *)
(***************************************************************************)
\* The invocation of run i decided to skip for a concurrent run.
SkipsForConcurrent(i) ==
  result[i] # NoResult /\ result[i].reason = "concurrent_skipping"

\* The runs the invocation of run i observed: its own and those of its
\* listing.
Observed(i) == {i} \cup Ids(context[i].allRuns)

\* C35: under outdated_runs, in every interleaving, an invocation that skips
\* for a concurrent run observed a run created after its own (the one it
\* cites), so a run with the newest createdAt among those it observes does
\* not get the verdict concurrent_skipping, and the runs never all get it.
C35_OutdatedNewestRuns ==
  inputs.concurrent_skipping = "outdated_runs"
    => /\ \A i \in RunIds :
            SkipsForConcurrent(i)
              => /\ result[i].skipped_by.id \in Observed(i) \ {i}
                 /\ apiRuns[result[i].skipped_by.id].created_at
                      > apiRuns[i].created_at
       /\ \A i \in RunIds :
            (/\ context[i] # NoContext
             /\ \A r \in Observed(i) :
                  apiRuns[r].created_at <= apiRuns[i].created_at)
              => ~SkipsForConcurrent(i)
       /\ \E i \in RunIds : ~SkipsForConcurrent(i)

\* C35, witness: under outdated_runs all runs are over, every run but the
\* newest skipped for a concurrent run, and the newest, which observed the
\* others in progress, did not skip.
C35_Witness ==
  /\ inputs.concurrent_skipping = "outdated_runs"
  /\ AllOver
  /\ \A i \in RunIds \ {NumRuns} : Skipped(i) /\ SkipsForConcurrent(i)
  /\ Observed(NumRuns) = RunIds
  /\ \E k \in 1..Len(context[NumRuns].allRuns) :
       context[NumRuns].allRuns[k].status = "in_progress"
  /\ ~Skipped(NumRuns)

(***************************************************************************)
(* Properties of SpecOrder: cancel requests and the cause of a skip.       *)
(***************************************************************************)
\* C36, as stated: with cancel_others the run an invocation cites as
\* skipped_by is never a run this invocation sent a cancel request for,
\* under every policy.
C36_AsStated ==
  \A i \in RunIds :
    (inputs.cancel_others /\ result[i] # NoResult
       /\ result[i].skipped_by # NoRun)
      => result[i].skipped_by.id \notin Requested(i)

\* Under every policy but always the cited run is not one of the requested
\* ones: a request goes to a run of another tree hash, which neither a
\* duplicate nor a same_content policy cites.
CitedNotRequestedUnlessAlways ==
  \A i \in RunIds :
    (inputs.concurrent_skipping # "always" /\ result[i] # NoResult
       /\ result[i].skipped_by # NoRun)
      => result[i].skipped_by.id \notin Requested(i)

(***************************************************************************)
(* Properties of SpecStore: the entries a ledger blob holds.               *)
(***************************************************************************)
\* The runs other than run i that the listing holds with a tree hash.
ListedWithTree(i) ==
  {r \in RunIds \ {i} :
     apiRuns[r].status # "none" /\ apiRuns[r].tree_id # NoHash}

\* The runs whose entries an invocation of run i keeps from the latest blob.
KeptFromLatest(i) == DOMAIN LatestArtifactData \cap ListedWithTree(i)

\* C37: an invocation holds, next to the entry of its own run, the entries of
\* the latest blob for the runs of its listing that have a tree hash, as they
\* are in that blob (none of them when the read fails), and the blob it
\* uploads holds exactly the entries it holds: the entry of any other run is
\* dropped, and no uploaded blob holds more entries than the listing has
\* runs, plus one.
C37_LedgerBounded ==
  [][\A i \in RunIds :
       /\ ReadStep(i)
            => LET held == DOMAIN context'[i].artifactRuns
               IN /\ held \in {{i}, {i} \cup KeptFromLatest(i)}
                  /\ ~mayFail => held = {i} \cup KeptFromLatest(i)
                  /\ \A r \in held \ {i} :
                       context'[i].artifactRuns[r] = LatestArtifactData[r]
       /\ (ExitStep(i) /\ artifacts' # artifacts)
            => LET written == artifacts'[1].data
               IN /\ DOMAIN written = DOMAIN context[i].artifactRuns
                  /\ \A r \in DOMAIN written \ {i} :
                       written[r] = context[i].artifactRuns[r]
                  /\ Cardinality(DOMAIN written)
                       <= Len(listWorkflowRuns) + 1]_vars

\* C37, witness: an invocation uploaded a blob that holds its own entry and
\* the entry of a listed run, after it read a blob that also held the entry
\* of a run that is not listed or has no tree hash, which the new blob lacks.
C37_Witness ==
  \E i \in RunIds, r \in RunIds, q \in RunIds :
    /\ Emitted(i)
    /\ Len(artifacts) >= 2
    /\ context[i].artifactIds # <<>>
    /\ context[i].artifactIds[1] = artifacts[2].id
    /\ DOMAIN artifacts[1].data = {i, r}
    /\ r \in ListedWithTree(i)
    /\ q \in DOMAIN artifacts[2].data
    /\ q \notin ListedWithTree(i) \cup {i}

(***************************************************************************)
(* Properties of SpecNested: a filter with an allow-list and a deny-list.  *)
(***************************************************************************)
\* The limit of filter f is looked at at distance d.
AtBound(f, d) ==
  \/ f.backtracking.kind = "number" /\ f.backtracking.n = d
  \/ f.backtracking.kind = "boolean" /\ ~f.backtracking.b /\ d = 1

\* The files that match the allow-list of f.
AllowMatches(f, files) == {x \in files : \E q \in f.paths : IsMatch(x, q)}

\* The files that match the deny-list of f.
DenyMatches(f, files) == {x \in files : \E q \in f.paths_ignore : IsMatch(x, q)}

\* Filter `name` of run i resolved to don't-skip at a commit, not at its
\* limit.
RealChange(i, name) ==
  LET f == PathsFilterOf(inputs)[name]
      res == result[i].paths_result[name]
  IN /\ PathsDecided(i)
     /\ res.should_skip = False
     /\ ~AtBound(f, res.backtrack_count)

\* C38: a filter with an allow-list resolves to don't-skip at a commit, its
\* limit aside, only if the changed files are not all deny-listed and at
\* least one of them matches the allow-list, deny-listed or not; its
\* matched_files are then all the changed files that match the allow-list;
\* and every commit the walk passed for a resolved filter has all its changed
\* files deny-listed or none matching the allow-list.
C38_AllowAndDeny ==
  \A i \in RunIds, name \in DOMAIN inputs.paths_filter :
    LET f == PathsFilterOf(inputs)[name]
        res == result[i].paths_result[name]
        d == res.backtrack_count
    IN /\ RealChange(i, name)
            => /\ ~DenyListed(f, FilesAt(i, d))
               /\ AllowMatches(f, FilesAt(i, d)) # {}
               /\ res.matched_files = AllowMatches(f, FilesAt(i, d))
       /\ (PathsDecided(i) /\ res.should_skip # Null)
            => \A k \in 0..(d - 1) :
                 \/ DenyListed(f, FilesAt(i, k))
                 \/ NoAllowMatch(f, FilesAt(i, k))

\* C38, witness: F = src/** without src/docs/** resolved to don't-skip at the
\* starting commit, which changes a file of src/docs and a file outside src,
\* and matched_files holds the file of src/docs.
C38_Witness ==
  \E i \in RunIds :
    /\ RealChange(i, "F")
    /\ inputs.paths_filter["F"].paths_ignore = {"src/docs/**"}
    /\ result[i].paths_result["F"].backtrack_count = 0
    /\ FilesAt(i, 0) = {"src/docs/a.md", "docs/a.md"}
    /\ result[i].paths_result["F"].matched_files = {"src/docs/a.md"}

\* C38, as stated: a filter with both lists resolves to don't-skip at a
\* commit, its limit aside, only if a changed file matches the allow-list and
\* not the deny-list, and matched_files holds no deny-listed file.
C38_AsStated ==
  \A i \in RunIds, name \in DOMAIN inputs.paths_filter :
    LET f == PathsFilterOf(inputs)[name]
        res == result[i].paths_result[name]
        d == res.backtrack_count
    IN (RealChange(i, name) /\ f.paths # {} /\ f.paths_ignore # {})
         => /\ AllowMatches(f, FilesAt(i, d))
                 \ DenyMatches(f, FilesAt(i, d)) # {}
            /\ DenyMatches(f, res.matched_files) = {}

====
